---- MODULE Spec2Model ----
(***************************************************************************)
(* Verification model of parts of the vespa repository.                    *)
(*                                                                         *)
(* Part I   WriteableFileChunk: the writeable file chunk of the log data   *)
(*          store (append, flush, background packing and file writing,     *)
(*          pending index records, freeze, read).                          *)
(* Part II  ReferenceAttribute: updates, generations, compaction and the   *)
(*          resolved lids of a reference attribute.                        *)
(* Part III StoreOnlyFeedView: puts, removes, updates and moves.            *)
(* Part IV  StructuredFieldValue: transactions on a struct.                 *)
(* Part V   DynamicDocsumWriter: override writers and the writing of a     *)
(*          docsum.                                                        *)
(* Part VI  NodeAllocation: offered and accepted nodes, the final list.    *)
(* Part VII NodePrioritizer: spare hosts, headroom hosts and the candidate *)
(*          nodes of an allocation.                                        *)
(* Part VIII NodeRepositoryProvisioner: the checks of prepare.             *)
(* Part IX  Proton configuration: config managers, the config fetcher and  *)
(*          the snapshots given to the configurer.                         *)
(* Part X   FastOS_ThreadPool: thread creation up to a maximum.            *)
(* Part XI  CommandLineOptions: the parsing of the command line of         *)
(*          vespa-get.                                                     *)
(* Part XII  WriteableFileChunk: failed writes and syncs of the two files.  *)
(* Part XIII FlattenDocsumWriter: values written, separators and clear().   *)
(***************************************************************************)
EXTENDS Integers, Sequences, FiniteSets, TLC

(***************************************************************************)
(* Bounds of the model.                                                    *)
(***************************************************************************)
\* largest serial number handed to append / flush
MaxSerial == 3
\* nodes offered to one allocation, and the largest node count requested
MaxOffered == 3
MaxRequested == 2
\* the largest node count and group count of a request, and the calls of the
\* preparer
MaxNodeCount == 4
MaxGroups == 3
MaxPrepares == 2
\* the reloads of the configuration context
MaxReloads == 2
\* stands for MAX_THREADS (7) of the thread test, scaled down
MaxPoolThreads == 3
\* the lines of standard input
MaxStdinLines == 2
\* the values written to a writer before it is cleared
MaxWrites == 2
\* the length of the buffer of a fresh writer
InitialLength == 32
\* stands for the literal 1000 of flushLastIfNonEmpty, scaled down
MaxOutstandingChunks == 1
\* entries an active chunk has room for: config.getMaxChunkBytes() in entries
MaxChunkEntries == 2

(***************************************************************************)
(* Program constants.                                                      *)
(***************************************************************************)
Alignment == 4096
headerAlign == 4096
\* the key of the end-of-stream marker in the ordered map: the code uses
\* std::numeric_limits<uint32_t>::max(); the largest integer TLC has stands for it
NullChunkKey == 2147483647

\* every chunk moved to the chunk map takes a serial number: ids stay below this
MaxChunks == MaxSerial + 1
Lids == {1, 2}
\* the serialized document of an append: every append brings bytes of its own,
\* told apart by the serial number of the append
Blob(serial) == <<serial>>
Bytes == {Blob(s) : s \in 1..MaxSerial}
\* an empty buffer, and bytes that are no document at all
NoData == << >>
Garbage == <<0>>

VARIABLES
    \* ---- WriteableFileChunk fields
    serialNum,                \* _serialNum
    frozen,                   \* _frozen
    active,                   \* _active
    nextChunkId,              \* _nextChunkId
    chunkMap,                 \* _chunkMap: chunk id -> chunk in flight
    chunkInfo,                \* _chunkInfo: vector index -> ChunkInfo
    writeQ,                   \* _writeQ
    orderedChunks,            \* _orderedChunks
    writeTaskIsRunning,       \* _writeTaskIsRunning
    firstChunkIdToBeWritten,  \* _firstChunkIdToBeWritten
    pendingChunks,            \* _pendingChunks
    lastPersistedSerialNum,   \* _lastPersistedSerialNum
    \* ---- the two files
    dataFile,                 \* [size, synced, extents]
    idxFile,                  \* [recs, synced]
    \* ---- threads
    flushTasks,               \* executor: scheduled internalFlush tasks
    writers,                  \* executor: scheduled/running fileWriter tasks
    client,                   \* the thread calling append / flush / freeze
    flusher,                  \* the thread calling flushPendingChunks
    reader,                   \* a thread calling read
    aborted,                  \* an assert has failed
    \* ---- history
    appended                  \* <<lid, chunk id>> -> bytes of the last append

wfcVars == <<serialNum, frozen, active, nextChunkId, chunkMap, chunkInfo, writeQ,
             orderedChunks, writeTaskIsRunning, firstChunkIdToBeWritten,
             pendingChunks, lastPersistedSerialNum, dataFile, idxFile,
             flushTasks, writers, client, flusher, reader, aborted, appended>>

\* ---- the reference attribute (Part II)
VARIABLES
    indices,          \* _indices: doc id -> entry ref
    store,            \* _store: entry ref -> [gid, lid, refCount, state, holdGen]
    generation,       \* the current generation of the generation handler
    mapperFactory,    \* _gidToLidMapperFactory is set
    populated,        \* populateReferencedLids has run with the factory set
    parentLid,        \* the parent meta store: gid -> lid (0: none)
    notifyQ,          \* gid to lid changes on their way to the attribute
    cachedUsage,      \* _cachedUniqueStoreMemoryUsage, in entries
    compactions,      \* history: the number of compactions so far
    refWriter,        \* the attribute writer thread inside update
    refReader         \* a reader thread holding a generation guard

refVars == <<indices, store, generation, mapperFactory, populated, parentLid,
             notifyQ, cachedUsage, compactions, refWriter, refReader>>

\* ---- the feed view (Part III)
VARIABLES
    visibilityDelay,  \* _commitTimeTracker.hasVisibilityDelay()
    feedOp,           \* the master thread inside internalPut / internalRemove
    feedLog,          \* what the current operation has done so far, in order
    summaryQ,         \* the tasks of the summary executor, in order
    pendingLids,      \* _pendingLidTracker: lid -> produced and not yet consumed
    summaryStore,     \* _summaryAdapter: lid -> the version stored
    feedSerial,       \* the serial number of the last operation
    attributeQ,       \* the tasks of the attribute field writer, in order
    moveDone,         \* the move-done callback of the last move (doneCtx)
    lidReuse          \* meta store and lid reuse delayer: lid -> free, in use, ...

feedVars == <<visibilityDelay, feedOp, feedLog, summaryQ, pendingLids, summaryStore,
              feedSerial, attributeQ, moveDone, lidReuse>>

\* ---- the structured field value (Part IV)
VARIABLES
    structFields,     \* the fields as the struct stores them: field -> value
    structCache,      \* _cache: the StructuredCache of the open transaction
    structAtBegin,    \* the stored fields when the transaction began
    structExpected,   \* the fields as the calls made so far ask for them
    structRead        \* what getValue gave the last iteration, field by field

structVars == <<structFields, structCache, structAtBegin, structExpected, structRead>>

\* ---- the dynamic docsum writer (Part V)
VARIABLES
    overrideTable,       \* _overrideTable: field enum value -> writer or NULL
    classInfoTable,      \* _classInfoTable: class id -> _overrideCnt, _generateCnt
    defaultOutputClass,  \* _defaultOutputClass
    accepted,            \* the <<field, writer>> pairs Override has registered
    lastOverride,        \* the last Override call and what it returned
    docsum               \* the last WriteDocsum call and what it did

docsumVars == <<overrideTable, classInfoTable, defaultOutputClass, accepted,
                lastOverride, docsum>>

\* ---- the node allocation (Part VI)
VARIABLES
    allocRequest,                    \* requestedNodes and the type of the cluster
    allocNodes,                      \* nodes: the nodes accepted so far
    acceptedOfRequestedFlavor,
    rejectedWithClashingParentHost,
    wasRetiredJustNow,
    indexes,                         \* the membership indexes of the accepted nodes
    highestIndex,                    \* the counter the new indexes come from
    offeredCount,                    \* how many nodes have been offered
    finalList,                       \* what finalNodes returned
    earlierIndexes                   \* the indexes accepted by the allocations of
                                     \* earlier groups, which share highestIndex

allocVars == <<allocRequest, allocNodes, acceptedOfRequestedFlavor,
               rejectedWithClashingParentHost, wasRetiredJustNow, indexes, highestIndex,
               offeredCount, finalList, earlierIndexes>>

\* ---- the node prioritizer (Part VII)
VARIABLES
    prio,                            \* the fields the constructor sets
    prioNodes                        \* nodes: the candidate list

prioVars == <<prio, prioNodes>>

\* ---- the provisioner (Part VIII)
VARIABLES
    prepareCall,                     \* the last call of prepare and how it ended
    preparerCalls,                   \* how often the preparer has been invoked
    prepared                         \* what the preparer was last invoked with

prepareVars == <<prepareCall, preparerCalls, prepared>>

\* ---- the proton configuration (Part IX)
VARIABLES
    cfgBuilders,                     \* the config builders of the fixture
    cfgContext,                      \* what the config context serves
    cfgManager,                      \* the bootstrap config manager
    cfgFetcher,                      \* the proton config fetcher
    cfgOwner                         \* the configurer and its last snapshot

configVars == <<cfgBuilders, cfgContext, cfgManager, cfgFetcher, cfgOwner>>

\* ---- the thread pool (Part X)
VARIABLES
    pool,                            \* the pool: its maximum, its threads
    jobs,                            \* the jobs of the test
    newThread                        \* the last call of NewThread

threadVars == <<pool, jobs, newThread>>

\* ---- the command line options (Part XI)
VARIABLES
    cli,                             \* the call of parseCommandLineArguments
    stdinRead                        \* the lines read from standard input

cliVars == <<cli, stdinRead>>

\* ---- the exceptions of the file chunk (Part XII)
VARIABLES
    thrown                           \* the summary exceptions thrown so far

failVars == <<thrown>>

\* ---- the flattening docsum writer (Part XIII)
VARIABLES
    fdw,                             \* the writer: output, separator, useSeparator, length
    fdwMade,                         \* the separator the writer was constructed with
    fdwSession,                      \* the values written since construction or clear()
    fdwCleared,                      \* clear() was called
    fdwEarlier                       \* the values written before the last clear()

flatVars == <<fdw, fdwMade, fdwSession, fdwCleared, fdwEarlier>>

\* a step of the file chunk leaves the other parts as they are, and so on
WfcOnly == UNCHANGED <<refVars, feedVars, structVars, docsumVars, allocVars, prioVars, prepareVars, configVars, threadVars, cliVars, failVars, flatVars>>
RefOnly == UNCHANGED <<wfcVars, feedVars, structVars, docsumVars, allocVars, prioVars, prepareVars, configVars, threadVars, cliVars, failVars, flatVars>>
FeedOnly == UNCHANGED <<wfcVars, refVars, structVars, docsumVars, allocVars, prioVars, prepareVars, configVars, threadVars, cliVars, failVars, flatVars>>
StructOnly == UNCHANGED <<wfcVars, refVars, feedVars, docsumVars, allocVars, prioVars, prepareVars, configVars, threadVars, cliVars, failVars, flatVars>>
DocsumOnly == UNCHANGED <<wfcVars, refVars, feedVars, structVars, allocVars, prioVars, prepareVars, configVars, threadVars, cliVars, failVars, flatVars>>
AllocOnly == UNCHANGED <<wfcVars, refVars, feedVars, structVars, docsumVars, prioVars, prepareVars, configVars, threadVars, cliVars, failVars, flatVars>>
PrioOnly == UNCHANGED <<wfcVars, refVars, feedVars, structVars, docsumVars, allocVars, prepareVars, configVars, threadVars, cliVars, failVars, flatVars>>
PrepareOnly == UNCHANGED <<wfcVars, refVars, feedVars, structVars, docsumVars, allocVars, prioVars, configVars, threadVars, cliVars, failVars, flatVars>>
ConfigOnly == UNCHANGED <<wfcVars, refVars, feedVars, structVars, docsumVars, allocVars, prioVars, prepareVars, threadVars, cliVars, failVars, flatVars>>
ThreadOnly == UNCHANGED <<wfcVars, refVars, feedVars, structVars, docsumVars, allocVars, prioVars, prepareVars, configVars, cliVars, failVars, flatVars>>
CliOnly == UNCHANGED <<wfcVars, refVars, feedVars, structVars, docsumVars, allocVars, prioVars, prepareVars, configVars, threadVars, failVars, flatVars>>
\* a step of the file chunk that throws
WfcFailOnly == UNCHANGED <<refVars, feedVars, structVars, docsumVars, allocVars, prioVars, prepareVars, configVars, threadVars, cliVars, flatVars>>
FlatOnly == UNCHANGED <<wfcVars, refVars, feedVars, structVars, docsumVars, allocVars, prioVars, prepareVars, configVars, threadVars, cliVars, failVars>>

(***************************************************************************)
(* Helpers.                                                                *)
(***************************************************************************)
Min(S) == CHOOSE x \in S : \A y \in S : x <= y
Max(S) == CHOOSE x \in S : \A y \in S : x >= y
Restrict(f, S) == [x \in S |-> f[x]]
Extend(f, k, v) == [x \in (DOMAIN f) \cup {k} |-> IF x = k THEN v ELSE f[x]]

\* new Chunk(id, Config(maxChunkBytes))
NewChunk(id) == [id |-> id, data |-> [l \in Lids |-> NoData], count |-> 0,
                 lastSerial |-> 0]

\* ChunkInfo(): a default constructed, invalid chunk info
InvalidChunkInfo == [valid |-> FALSE, offset |-> 0, size |-> 0, lastSerial |-> 0]

\* ProcessedChunk::UP(): the end-of-stream marker enqueued by freeze
NullChunk == [null |-> TRUE, chunkId |-> NullChunkKey, data |-> [l \in Lids |-> NoData],
              dataLen |-> 0]

IdleClient == [pc |-> "idle", op |-> "none", block |-> FALSE, syncToken |-> 0,
               lid |-> 0, bytes |-> NoData, chunkId |-> -1]
IdleFlusher == [pc |-> "idle", serialNum |-> 0, datFileLen |-> 0, popped |-> <<>>,
                lastSerial |-> 0]
IdleReader == [pc |-> "idle", lid |-> 0, chunkId |-> 0, info |-> InvalidChunkInfo,
               got |-> NoData, want |-> NoData, lost |-> FALSE]

(***************************************************************************)
(* Initial state: the file chunk right after construction on empty files.  *)
(***************************************************************************)
WfcInit ==
    /\ serialNum = 0
    /\ frozen = FALSE
    /\ active = NewChunk(0)
    /\ nextChunkId = 1
    /\ chunkMap = << >>
    /\ chunkInfo = << >>
    /\ writeQ = << >>
    /\ orderedChunks = << >>
    /\ writeTaskIsRunning = FALSE
    /\ firstChunkIdToBeWritten = 0
    /\ pendingChunks = << >>
    /\ lastPersistedSerialNum = 0
    /\ dataFile = [size |-> headerAlign, synced |-> 0, extents |-> << >>]
    /\ idxFile = [recs |-> << >>, synced |-> 0]
    /\ flushTasks = {}
    /\ writers = << >>
    /\ client = IdleClient
    /\ flusher = IdleFlusher
    /\ reader = IdleReader
    /\ aborted = FALSE
    /\ appended = << >>

(***************************************************************************)
(* The executor.  Tasks are taken in any order by the worker threads.      *)
(* sync() waits for the tasks scheduled before the call: they are marked.  *)
(***************************************************************************)
NewWriter(firstChunkId) ==
    [pc |-> "start", firstChunkId |-> firstChunkId, nextChunkId |-> firstChunkId,
     chunks |-> << >>, cmetaV |-> << >>, done |-> FALSE, awaited |-> FALSE]

\* WriteableFileChunk::restart
restart(ws, nextId) == Append(ws, NewWriter(nextId))

MarkAwaited(ts) == {[t EXCEPT !.awaited = TRUE] : t \in ts}
MarkAwaitedSeq(ws) == [i \in DOMAIN ws |-> [ws[i] EXCEPT !.awaited = TRUE]]
NoneAwaited ==
    /\ \A t \in flushTasks : ~t.awaited
    /\ \A i \in DOMAIN writers : ~writers[i].awaited

(***************************************************************************)
(* append, flush and freeze, called by the single writing thread.          *)
(***************************************************************************)
\* Chunk::hasRoom
hasRoom(chunk) == chunk.count < MaxChunkEntries

\* the body of append after the room check
DoAppend(act, lid, bytes) ==
    /\ serialNum' = serialNum + 1
    /\ active' = [act EXCEPT !.data[lid] = bytes, !.count = @ + 1]
    /\ appended' = Extend(appended, <<lid, act.id>>, bytes)

\* the overload check of flushLastIfNonEmpty
\* the flushing thread is never held back
SuspendFlushNever == FALSE

SuspendFlush == Cardinality(DOMAIN chunkMap) > MaxOutstandingChunks

\* append: the active chunk has room
AppendRoom(lid, bytes) ==
    /\ ~aborted /\ client.pc = "idle" /\ ~frozen
    /\ serialNum < MaxSerial
    /\ hasRoom(active)
    /\ DoAppend(active, lid, bytes)
    /\ UNCHANGED <<frozen, nextChunkId, chunkMap, chunkInfo, writeQ, orderedChunks,
                   writeTaskIsRunning, firstChunkIdToBeWritten, pendingChunks,
                   lastPersistedSerialNum, dataFile, idxFile, flushTasks, writers,
                   client, flusher, reader, aborted>>

\* append: no room, flush(false, _serialNum) comes first
AppendNoRoom(lid, bytes) ==
    /\ ~aborted /\ client.pc = "idle" /\ ~frozen
    /\ serialNum < MaxSerial
    /\ ~hasRoom(active)
    /\ client' = [IdleClient EXCEPT !.pc = "flushLast", !.op = "append",
                     !.syncToken = serialNum, !.lid = lid, !.bytes = bytes]
    /\ UNCHANGED <<serialNum, frozen, active, nextChunkId, chunkMap, chunkInfo, writeQ,
                   orderedChunks, writeTaskIsRunning, firstChunkIdToBeWritten,
                   pendingChunks, lastPersistedSerialNum, dataFile, idxFile,
                   flushTasks, writers, flusher, reader, aborted, appended>>

\* flush(block, syncToken) is called
CallFlush(block, syncToken) ==
    /\ ~aborted /\ client.pc = "idle" /\ ~frozen
    /\ syncToken <= MaxSerial
    /\ client' = [IdleClient EXCEPT !.pc = "flushLast", !.op = "flush",
                     !.block = block, !.syncToken = syncToken]
    /\ UNCHANGED <<serialNum, frozen, active, nextChunkId, chunkMap, chunkInfo, writeQ,
                   orderedChunks, writeTaskIsRunning, firstChunkIdToBeWritten,
                   pendingChunks, lastPersistedSerialNum, dataFile, idxFile,
                   flushTasks, writers, flusher, reader, aborted, appended>>

\* flushLastIfNonEmpty and the rest of flush up to _executor.sync()
FlushLast ==
    /\ ~aborted /\ client.pc = "flushLast"
    /\ ~SuspendFlush
    /\ LET force == client.syncToken > serialNum
           moves == force \/ active.count > 0
           chunkId == IF moves THEN active.id ELSE -1
           waitId == IF moves THEN chunkId
                     ELSE IF client.block /\ DOMAIN chunkMap # {}
                          THEN Max(DOMAIN chunkMap) ELSE -1
           newSerial == IF moves /\ client.syncToken > serialNum
                        THEN client.syncToken ELSE serialNum
           act == IF moves THEN NewChunk(nextChunkId) ELSE active
           tasks == IF moves
                    THEN flushTasks \cup {[chunkId |-> chunkId, serialNum |-> newSerial,
                                           awaited |-> FALSE]}
                    ELSE flushTasks
       IN /\ chunkMap' = IF moves THEN Extend(chunkMap, chunkId, active) ELSE chunkMap
          /\ nextChunkId' = IF moves THEN nextChunkId + 1 ELSE nextChunkId
          /\ IF client.block
             THEN /\ client' = [client EXCEPT !.pc = "sync", !.chunkId = waitId]
                  /\ flushTasks' = MarkAwaited(tasks)
                  /\ writers' = MarkAwaitedSeq(writers)
                  /\ serialNum' = newSerial
                  /\ active' = act
                  /\ UNCHANGED appended
             ELSE /\ client' = IdleClient
                  /\ flushTasks' = tasks
                  /\ UNCHANGED writers
                  /\ IF client.op = "append"
                     THEN DoAppend(act, client.lid, client.bytes)
                     ELSE /\ serialNum' = newSerial
                          /\ active' = act
                          /\ UNCHANGED appended
    /\ UNCHANGED <<frozen, chunkInfo, writeQ, orderedChunks, writeTaskIsRunning,
                   firstChunkIdToBeWritten, pendingChunks, lastPersistedSerialNum,
                   dataFile, idxFile, flusher, reader, aborted>>

\* _executor.sync() returns
ExecutorSync ==
    /\ ~aborted /\ client.pc \in {"sync", "frzSync"}
    /\ NoneAwaited
    /\ client' = [client EXCEPT !.pc = IF client.pc = "sync" THEN "waitChunk"
                                       ELSE "frzWaitTask"]
    /\ UNCHANGED <<serialNum, frozen, active, nextChunkId, chunkMap, chunkInfo, writeQ,
                   orderedChunks, writeTaskIsRunning, firstChunkIdToBeWritten,
                   pendingChunks, lastPersistedSerialNum, dataFile, idxFile,
                   flushTasks, writers, flusher, reader, aborted, appended>>

\* the loop condition of waitForChunkFlushedToDisk
\* the wait for a chunk ends at once
ChunkFlushedAtOnce(chunkId) == TRUE

ChunkFlushedToDisk(chunkId) == chunkId \notin DOMAIN chunkMap

\* waitForChunkFlushedToDisk returns, and with it flush(true, ...)
WaitForChunkFlushedToDisk ==
    /\ ~aborted /\ client.pc = "waitChunk"
    /\ ChunkFlushedToDisk(client.chunkId)
    /\ client' = [client EXCEPT !.pc = "flushed"]
    /\ UNCHANGED <<serialNum, frozen, active, nextChunkId, chunkMap, chunkInfo, writeQ,
                   orderedChunks, writeTaskIsRunning, firstChunkIdToBeWritten,
                   pendingChunks, lastPersistedSerialNum, dataFile, idxFile,
                   flushTasks, writers, flusher, reader, aborted, appended>>

\* the caller of flush(true, ...) goes on
FlushReturned ==
    /\ ~aborted /\ client.pc = "flushed"
    /\ client' = IdleClient
    /\ UNCHANGED <<serialNum, frozen, active, nextChunkId, chunkMap, chunkInfo, writeQ,
                   orderedChunks, writeTaskIsRunning, firstChunkIdToBeWritten,
                   pendingChunks, lastPersistedSerialNum, dataFile, idxFile,
                   flushTasks, writers, flusher, reader, aborted, appended>>

(***************************************************************************)
(* enque: push under the write monitor, start a file writer if none runs.  *)
(***************************************************************************)
\* the test of _writeTaskIsRunning in enque
\* no enque starts a file writer
MustStartWriterNever == FALSE

\* every enque starts a file writer
MustStartWriterAlways == TRUE

MustStartWriter == writeTaskIsRunning = FALSE

enque(tmp) ==
    /\ writeQ' = Append(writeQ, tmp)
    /\ IF MustStartWriter
       THEN /\ writeTaskIsRunning' = TRUE
            /\ writers' = restart(writers, firstChunkIdToBeWritten)
       ELSE UNCHANGED <<writeTaskIsRunning, writers>>

(***************************************************************************)
(* freeze.                                                                 *)
(***************************************************************************)
CallFreeze ==
    /\ ~aborted /\ client.pc = "idle" /\ ~frozen
    /\ client' = [IdleClient EXCEPT !.pc = "frzWaitAll", !.op = "freeze"]
    /\ UNCHANGED <<serialNum, frozen, active, nextChunkId, chunkMap, chunkInfo, writeQ,
                   orderedChunks, writeTaskIsRunning, firstChunkIdToBeWritten,
                   pendingChunks, lastPersistedSerialNum, dataFile, idxFile,
                   flushTasks, writers, flusher, reader, aborted, appended>>

\* the loop condition of waitForAllChunksFlushedToDisk
AllChunksFlushedToDisk == DOMAIN chunkMap = {}

\* waitForAllChunksFlushedToDisk returns; enque(ProcessedChunk::UP()); sync() starts
FreezeEnque ==
    /\ ~aborted /\ client.pc = "frzWaitAll"
    /\ AllChunksFlushedToDisk
    /\ writeQ' = Append(writeQ, NullChunk)
    /\ IF MustStartWriter
       THEN /\ writeTaskIsRunning' = TRUE
            /\ writers' = MarkAwaitedSeq(restart(writers, firstChunkIdToBeWritten))
       ELSE /\ UNCHANGED writeTaskIsRunning
            /\ writers' = MarkAwaitedSeq(writers)
    /\ flushTasks' = MarkAwaited(flushTasks)
    /\ client' = [client EXCEPT !.pc = "frzSync"]
    /\ UNCHANGED <<serialNum, frozen, active, nextChunkId, chunkMap, chunkInfo,
                   orderedChunks, firstChunkIdToBeWritten, pendingChunks,
                   lastPersistedSerialNum, dataFile, idxFile, flusher, reader,
                   aborted, appended>>

\* the loop condition of the wait for the write task in freeze
WriteTaskStopped == ~writeTaskIsRunning

\* the write task has stopped: assert(_writeQ.empty()), _frozen = true
FreezeDone ==
    /\ ~aborted /\ client.pc = "frzWaitTask"
    /\ WriteTaskStopped
    /\ IF writeQ = << >>
       THEN /\ frozen' = TRUE
            /\ UNCHANGED aborted
       ELSE /\ aborted' = TRUE
            /\ UNCHANGED frozen
    /\ client' = IdleClient
    /\ UNCHANGED <<serialNum, active, nextChunkId, chunkMap, chunkInfo, writeQ,
                   orderedChunks, writeTaskIsRunning, firstChunkIdToBeWritten,
                   pendingChunks, lastPersistedSerialNum, dataFile, idxFile,
                   flushTasks, writers, flusher, reader, appended>>

(***************************************************************************)
(* internalFlush: a worker packs one chunk and enqueues it.                *)
(***************************************************************************)
\* Chunk::pack into a ProcessedChunk: the packed image and its length
Pack(chunk) == [null |-> FALSE, chunkId |-> chunk.id, data |-> chunk.data,
                dataLen |-> 1 + chunk.count]

internalFlush(t) ==
    /\ ~aborted /\ t \in flushTasks
    /\ flushTasks' = flushTasks \ {t}
    /\ chunkMap' = [chunkMap EXCEPT ![t.chunkId].lastSerial = t.serialNum]
    /\ enque(Pack(chunkMap[t.chunkId]))
    /\ UNCHANGED <<serialNum, frozen, active, nextChunkId, chunkInfo, orderedChunks,
                   firstChunkIdToBeWritten, pendingChunks, lastPersistedSerialNum,
                   dataFile, idxFile, client, flusher, reader, aborted, appended>>

(***************************************************************************)
(* fileWriter: the background task that writes packed chunks in id order.  *)
(***************************************************************************)
RECURSIVE insertChunks(_, _)
\* insertChunks: the drained queue goes into the ordered map
insertChunks(ordered, newChunks) ==
    IF newChunks = << >> THEN ordered
    ELSE insertChunks(Extend(ordered, Head(newChunks).chunkId, Head(newChunks)),
                      Tail(newChunks))

\* the two asserts of insertChunks
insertChunksAsserts(ordered, newChunks, nextId) ==
    \A i \in DOMAIN newChunks :
        ~newChunks[i].null =>
            /\ newChunks[i].chunkId >= nextId
            /\ newChunks[i].chunkId \notin DOMAIN ordered
            /\ \A j \in DOMAIN newChunks :
                   j # i => newChunks[j].chunkId # newChunks[i].chunkId

\* the loop condition of fetchNextChain
\* the chain takes whatever chunk is lowest in the ordered map
ChainTakesAny(ordered, firstChunkId, chunks) == DOMAIN ordered # {}

ChainContinues(ordered, firstChunkId, chunks) ==
    /\ DOMAIN ordered # {}
    /\ \/ Min(DOMAIN ordered) = firstChunkId + Len(chunks)
       \/ ordered[Min(DOMAIN ordered)].null

RECURSIVE fetchNextChain(_, _, _)
\* fetchNextChain: <<the chain taken, what stays in the ordered map>>
fetchNextChain(ordered, firstChunkId, chunks) ==
    IF ChainContinues(ordered, firstChunkId, chunks)
    THEN LET first == Min(DOMAIN ordered)
         IN fetchNextChain(Restrict(ordered, DOMAIN ordered \ {first}), firstChunkId,
                           Append(chunks, ordered[first]))
    ELSE <<chunks, ordered>>

\* getAlignedStartPos: the position the next write starts at
AlignedStartPos(size) ==
    IF (size % Alignment) # 0 THEN size + (Alignment - (size % Alignment)) ELSE size

\* the chunks of a chain without the end-of-stream marker (chunks.resize(i))
RealChunks(chunks) == SelectSeq(chunks, LAMBDA c : ~c.null)

\* every chunk of a batch gets the offset of the first
OffsetOfFirst(chunks, startPos, i) == startPos

RECURSIVE OffsetOf(_, _, _)
\* startPos + sz when chunk i of the chain gets its meta
OffsetOf(chunks, startPos, i) ==
    IF i = 1 THEN startPos
    ELSE OffsetOf(chunks, startPos, i - 1) + chunks[i - 1].dataLen

\* computeChunkMeta for chunk i: ChunkMeta and PendingChunk in one record
ChunkMetaOf(chunks, startPos, i) ==
    [chunkId |-> chunks[i].chunkId,
     offset |-> OffsetOf(chunks, startPos, i),
     dataLen |-> chunks[i].dataLen,
     lastSerial |-> chunkMap[chunks[i].chunkId].lastSerial]

\* fileWriter up to computeChunkMeta: drainQ, insertChunks, fetchNextChain,
\* getAlignedStartPos, computeChunkMeta
FileWriterStart(i) ==
    /\ ~aborted /\ i \in DOMAIN writers /\ writers[i].pc = "start"
    /\ LET w == writers[i]
           newChunks == writeQ
           inserted == insertChunks(orderedChunks, newChunks)
           fetched == fetchNextChain(inserted, w.nextChunkId, << >>)
           chain == fetched[1]
           chunks == RealChunks(chain)
           startPos == AlignedStartPos(dataFile.size)
           cmetaV == [k \in DOMAIN chunks |-> ChunkMetaOf(chunks, startPos, k)]
       IN /\ writeQ' = << >>
          /\ IF newChunks = << >>
             THEN /\ writers' = [writers EXCEPT ![i].pc = "finish"]
                  /\ UNCHANGED <<orderedChunks, dataFile, pendingChunks, aborted>>
             ELSE IF ~insertChunksAsserts(orderedChunks, newChunks, w.nextChunkId)
             THEN /\ aborted' = TRUE
                  /\ UNCHANGED <<orderedChunks, dataFile, pendingChunks, writers>>
             ELSE /\ orderedChunks' = fetched[2]
                  /\ dataFile' = IF startPos # dataFile.size
                                 THEN [dataFile EXCEPT !.size = startPos,
                                                       !.synced = startPos]
                                 ELSE dataFile
                  /\ pendingChunks' = pendingChunks \o cmetaV
                  /\ writers' = [writers EXCEPT
                                    ![i].pc = "write",
                                    ![i].nextChunkId = w.nextChunkId + Len(chain),
                                    ![i].chunks = chunks,
                                    ![i].cmetaV = cmetaV,
                                    ![i].done = \E k \in DOMAIN chain : chain[k].null]
                  /\ UNCHANGED aborted
    /\ UNCHANGED <<serialNum, frozen, active, nextChunkId, chunkMap, chunkInfo,
                   writeTaskIsRunning, firstChunkIdToBeWritten, lastPersistedSerialNum,
                   idxFile, flushTasks, client, flusher, reader, appended>>

\* writeData leaves the data file as it is
WriteNoData(file, chunks, cmetaV) == file

\* writeData: one Write2 of the whole chain at the end of the data file
WriteData(file, chunks, cmetaV) ==
    [file EXCEPT
        !.size = @ + (IF chunks = << >> THEN 0
                      ELSE cmetaV[Len(chunks)].offset + chunks[Len(chunks)].dataLen
                           - cmetaV[1].offset),
        !.extents = @ \o [k \in DOMAIN chunks |->
                             [offset |-> cmetaV[k].offset, len |-> chunks[k].dataLen,
                              chunkId |-> chunks[k].chunkId, data |-> chunks[k].data]]]

FileWriterWrite(i) ==
    /\ ~aborted /\ i \in DOMAIN writers /\ writers[i].pc = "write"
    /\ dataFile' = WriteData(dataFile, writers[i].chunks, writers[i].cmetaV)
    /\ writers' = [writers EXCEPT ![i].pc = "update"]
    /\ UNCHANGED <<serialNum, frozen, active, nextChunkId, chunkMap, chunkInfo, writeQ,
                   orderedChunks, writeTaskIsRunning, firstChunkIdToBeWritten,
                   pendingChunks, lastPersistedSerialNum, idxFile, flushTasks, client,
                   flusher, reader, aborted, appended>>

\* _chunkInfo.resize(n) when n is larger than the size
Resize(info, n) ==
    [k \in 0..(IF n > Cardinality(DOMAIN info) THEN n ELSE Cardinality(DOMAIN info)) - 1
        |-> IF k \in DOMAIN info THEN info[k] ELSE InvalidChunkInfo]

\* the ChunkInfo updateChunkInfo stores for a written chunk
WrittenChunkInfo(chunk, cmeta) ==
    [valid |-> TRUE, offset |-> cmeta.offset, size |-> chunk.dataLen,
     lastSerial |-> cmeta.lastSerial]

RECURSIVE updateChunkInfo(_, _, _, _)
\* updateChunkInfo: <<_chunkInfo, _chunkMap, asserts held>> after the loop
updateChunkInfo(info, map, chunks, cmetaV) ==
    IF chunks = << >> THEN <<info, map, TRUE>>
    ELSE IF DOMAIN map = {} \/ Min(DOMAIN map) # Head(chunks).chunkId
    THEN <<info, map, FALSE>>
    ELSE LET id == Min(DOMAIN map)
             grown == Resize(info, id + 1)
         IN updateChunkInfo(
                [grown EXCEPT ![id] = WrittenChunkInfo(Head(chunks), Head(cmetaV))],
                Restrict(map, DOMAIN map \ {id}), Tail(chunks), Tail(cmetaV))

FileWriterUpdate(i) ==
    /\ ~aborted /\ i \in DOMAIN writers /\ writers[i].pc = "update"
    /\ LET res == updateChunkInfo(chunkInfo, chunkMap, writers[i].chunks,
                                  writers[i].cmetaV)
       IN IF res[3]
          THEN /\ chunkInfo' = res[1]
               /\ chunkMap' = res[2]
               /\ writers' = [writers EXCEPT ![i].pc = "finish"]
               /\ UNCHANGED aborted
          ELSE /\ aborted' = TRUE
               /\ UNCHANGED <<chunkInfo, chunkMap, writers>>
    /\ UNCHANGED <<serialNum, frozen, active, nextChunkId, writeQ, orderedChunks,
                   writeTaskIsRunning, firstChunkIdToBeWritten, pendingChunks,
                   lastPersistedSerialNum, dataFile, idxFile, flushTasks, client,
                   flusher, reader, appended>>

RemoveAt(seq, i) == [k \in 1..(Len(seq) - 1) |-> IF k < i THEN seq[k] ELSE seq[k + 1]]

\* the asserts of the done branch of fileWriter
DoneAsserts ==
    /\ writeQ = << >>
    /\ DOMAIN chunkMap = {}
    /\ \A k \in DOMAIN chunkInfo : chunkInfo[k].valid /\ chunkInfo[k].size # 0

\* the tail of fileWriter under the write monitor
FileWriterFinish(i) ==
    /\ ~aborted /\ i \in DOMAIN writers /\ writers[i].pc = "finish"
    /\ LET w == writers[i]
       IN IF w.done
          THEN IF DoneAsserts
               THEN /\ writeTaskIsRunning' = FALSE
                    /\ writers' = RemoveAt(writers, i)
                    /\ UNCHANGED <<firstChunkIdToBeWritten, aborted>>
               ELSE /\ aborted' = TRUE
                    /\ UNCHANGED <<writeTaskIsRunning, writers, firstChunkIdToBeWritten>>
          ELSE IF writeQ = << >>
               THEN /\ firstChunkIdToBeWritten' = w.nextChunkId
                    /\ writeTaskIsRunning' = FALSE
                    /\ writers' = RemoveAt(writers, i)
                    /\ UNCHANGED aborted
               ELSE /\ writeTaskIsRunning' = TRUE
                    /\ writers' = restart(RemoveAt(writers, i), w.nextChunkId)
                    /\ UNCHANGED <<firstChunkIdToBeWritten, aborted>>
    /\ UNCHANGED <<serialNum, frozen, active, nextChunkId, chunkMap, chunkInfo, writeQ,
                   orderedChunks, pendingChunks, lastPersistedSerialNum, dataFile,
                   idxFile, flushTasks, client, flusher, reader, appended>>

(***************************************************************************)
(* flushPendingChunks: index records of written chunks go to the idx file. *)
(***************************************************************************)
\* needFlushPendingChunks: "no", "yes", or "assert" when assert(datWritten) fails
needFlushPendingChunks(pending, sn, datFileLen) ==
    IF pending = << >> THEN "no"
    ELSE LET pc == Head(pending)
             datWritten == datFileLen >= pc.offset + pc.dataLen
         IN IF pc.lastSerial > sn THEN "no"
            ELSE IF pc.lastSerial < sn
                 THEN (IF datWritten THEN "yes" ELSE "assert")
                 ELSE (IF datWritten THEN "yes" ELSE "no")

\* flushPendingChunks(serialNum) up to the call of unconditionallyFlushPendingChunks
FlushPendingChunks(sn) ==
    /\ ~aborted /\ flusher.pc = "idle" /\ ~frozen
    /\ LET need == needFlushPendingChunks(pendingChunks, sn, dataFile.size)
       IN /\ need # "no"
          /\ IF need = "assert"
             THEN /\ aborted' = TRUE
                  /\ UNCHANGED flusher
             ELSE /\ flusher' = [IdleFlusher EXCEPT !.pc = "syncDat", !.serialNum = sn,
                                                    !.datFileLen = dataFile.size]
                  /\ UNCHANGED aborted
    /\ UNCHANGED <<serialNum, frozen, active, nextChunkId, chunkMap, chunkInfo, writeQ,
                   orderedChunks, writeTaskIsRunning, firstChunkIdToBeWritten,
                   pendingChunks, lastPersistedSerialNum, dataFile, idxFile,
                   flushTasks, writers, client, reader, appended>>

\* _dataFile.Sync(): the length of the data file that is on stable storage after it
\* the data file is not synced
DataFileNoSync(file) == file.synced

DataFileSync(file) == file.size

RECURSIVE PopPending(_, _, _, _, _)
\* the loop of unconditionallyFlushPendingChunks:
\* <<what stays pending, the records taken, lastSerial, asserts held>>
PopPending(pending, sn, datFileLen, popped, lastSerial) ==
    LET need == needFlushPendingChunks(pending, sn, datFileLen)
    IN IF need = "no" THEN <<pending, popped, lastSerial, TRUE>>
       ELSE IF need = "assert" THEN <<pending, popped, lastSerial, FALSE>>
       ELSE LET pc == Head(pending)
            IN IF ~(datFileLen >= pc.offset + pc.dataLen /\ lastSerial <= pc.lastSerial)
               THEN <<pending, popped, lastSerial, FALSE>>
               ELSE PopPending(Tail(pending), sn, datFileLen, Append(popped, pc),
                               pc.lastSerial)

\* unconditionallyFlushPendingChunks: _dataFile.Sync(), then the loop under the lock.
\* A chunk that becomes pending between the two lies past datFileLen and is not
\* taken, so the two are one step.
FlushSyncDatAndPop ==
    /\ ~aborted /\ flusher.pc = "syncDat"
    /\ dataFile' = [dataFile EXCEPT !.synced = DataFileSync(dataFile)]
    /\ LET res == PopPending(pendingChunks, flusher.serialNum, flusher.datFileLen,
                             << >>, lastPersistedSerialNum)
       IN IF res[4]
          THEN /\ pendingChunks' = res[1]
               /\ flusher' = [flusher EXCEPT !.pc = "writeIdx", !.popped = res[2],
                                             !.lastSerial = res[3]]
               /\ UNCHANGED aborted
          ELSE /\ aborted' = TRUE
               /\ UNCHANGED <<pendingChunks, flusher>>
    /\ UNCHANGED <<serialNum, frozen, active, nextChunkId, chunkMap, chunkInfo, writeQ,
                   orderedChunks, writeTaskIsRunning, firstChunkIdToBeWritten,
                   lastPersistedSerialNum, idxFile, flushTasks, writers,
                   client, reader, appended>>

\* _idxFile.Sync(): the number of records on stable storage after it
IdxFileSync(file) == Len(file.recs)

\* _idxFile.Write2 of the serialized records, then _idxFile.Sync(); only this
\* thread touches the idx file
FlushWriteIdx ==
    /\ ~aborted /\ flusher.pc = "writeIdx"
    /\ LET written == [idxFile EXCEPT !.recs = @ \o flusher.popped]
       IN idxFile' = [written EXCEPT !.synced = IdxFileSync(written)]
    /\ flusher' = [flusher EXCEPT !.pc = "persist"]
    /\ UNCHANGED <<serialNum, frozen, active, nextChunkId, chunkMap, chunkInfo, writeQ,
                   orderedChunks, writeTaskIsRunning, firstChunkIdToBeWritten,
                   pendingChunks, lastPersistedSerialNum, dataFile, flushTasks, writers,
                   client, reader, aborted, appended>>

\* the last statement of unconditionallyFlushPendingChunks
FlushPersist ==
    /\ ~aborted /\ flusher.pc = "persist"
    /\ lastPersistedSerialNum' = IF lastPersistedSerialNum < flusher.lastSerial
                                 THEN flusher.lastSerial ELSE lastPersistedSerialNum
    /\ flusher' = IdleFlusher
    /\ UNCHANGED <<serialNum, frozen, active, nextChunkId, chunkMap, chunkInfo, writeQ,
                   orderedChunks, writeTaskIsRunning, firstChunkIdToBeWritten,
                   pendingChunks, dataFile, idxFile, flushTasks, writers, client,
                   reader, aborted, appended>>

(***************************************************************************)
(* read(lid, chunkId, buffer).                                             *)
(***************************************************************************)
\* the test that sends read to the chunks in memory
NotOnFile(chunkId) ==
    chunkId >= Cardinality(DOMAIN chunkInfo) \/ ~chunkInfo[chunkId].valid

\* FileChunk::read with a chunk info: what the data file holds at that place
DiskRead(info, lid) ==
    IF \E k \in DOMAIN dataFile.extents :
           /\ dataFile.extents[k].offset = info.offset
           /\ dataFile.extents[k].len = info.size
    THEN LET k == CHOOSE k \in DOMAIN dataFile.extents :
                      /\ dataFile.extents[k].offset = info.offset
                      /\ dataFile.extents[k].len = info.size
         IN dataFile.extents[k].data[lid]
    ELSE Garbage

\* read under the lock: served from memory, or the chunk info is taken.
\* A read changes nothing of the file chunk, so one read, of any entry at any
\* moment, stands for all of them.
ReadStart(lid, chunkId) ==
    /\ ~aborted /\ reader.pc = "idle"
    /\ <<lid, chunkId>> \in DOMAIN appended
    /\ LET r == [IdleReader EXCEPT !.lid = lid, !.chunkId = chunkId,
                                   !.want = appended[<<lid, chunkId>>]]
       IN IF ~frozen
          THEN IF NotOnFile(chunkId)
               THEN IF chunkId \in DOMAIN chunkMap
                    THEN /\ reader' = [r EXCEPT !.pc = "done",
                                                !.got = chunkMap[chunkId].data[lid]]
                         /\ UNCHANGED aborted
                    ELSE IF chunkId = active.id
                    THEN /\ reader' = [r EXCEPT !.pc = "done", !.got = active.data[lid]]
                         /\ UNCHANGED aborted
                    ELSE /\ aborted' = TRUE
                         /\ UNCHANGED reader
               ELSE /\ reader' = [r EXCEPT !.pc = "file", !.info = chunkInfo[chunkId]]
                    /\ UNCHANGED aborted
          ELSE /\ UNCHANGED aborted
               /\ IF chunkId \in DOMAIN chunkInfo
                  THEN reader' = [r EXCEPT !.pc = "file", !.info = chunkInfo[chunkId]]
                  \* _chunkInfo[chunkId] past the end of the vector: any value
                  ELSE \E g \in Bytes \cup {NoData, Garbage} :
                           reader' = [r EXCEPT !.pc = "done", !.got = g, !.lost = TRUE]
    /\ UNCHANGED <<serialNum, frozen, active, nextChunkId, chunkMap, chunkInfo, writeQ,
                   orderedChunks, writeTaskIsRunning, firstChunkIdToBeWritten,
                   pendingChunks, lastPersistedSerialNum, dataFile, idxFile,
                   flushTasks, writers, client, flusher, appended>>

\* read after the lock is released: FileChunk::read from the data file
ReadFile ==
    /\ ~aborted /\ reader.pc = "file"
    /\ reader' = [reader EXCEPT !.pc = "done", !.got = DiskRead(reader.info, reader.lid)]
    /\ UNCHANGED <<serialNum, frozen, active, nextChunkId, chunkMap, chunkInfo, writeQ,
                   orderedChunks, writeTaskIsRunning, firstChunkIdToBeWritten,
                   pendingChunks, lastPersistedSerialNum, dataFile, idxFile,
                   flushTasks, writers, client, flusher, aborted, appended>>

(***************************************************************************)
(* The file chunk as a whole.                                              *)
(***************************************************************************)
\* the writing thread with its inputs, and the worker threads of the executor
WfcWriting(lids, blocks) ==
    \/ \E lid \in lids : AppendRoom(lid, Blob(serialNum + 1)) /\ WfcOnly
    \/ \E lid \in lids : AppendNoRoom(lid, Blob(serialNum + 1)) /\ WfcOnly
    \/ \E block \in blocks, syncToken \in {serialNum, serialNum + 1} :
           CallFlush(block, syncToken) /\ WfcOnly
    \/ FlushLast /\ WfcOnly
    \/ \E t \in flushTasks : internalFlush(t) /\ WfcOnly
    \/ \E i \in DOMAIN writers : FileWriterStart(i) /\ WfcOnly
    \/ \E i \in DOMAIN writers : FileWriterWrite(i) /\ WfcOnly
    \/ \E i \in DOMAIN writers : FileWriterUpdate(i) /\ WfcOnly
    \/ \E i \in DOMAIN writers : FileWriterFinish(i) /\ WfcOnly

\* the end of a blocking flush
WfcBlocking ==
    \/ WaitForChunkFlushedToDisk /\ WfcOnly
    \/ FlushReturned /\ WfcOnly

\* freeze, and _executor.sync() of freeze and of a blocking flush
WfcFreezing ==
    \/ CallFreeze /\ WfcOnly
    \/ FreezeEnque /\ WfcOnly
    \/ ExecutorSync /\ WfcOnly
    \/ FreezeDone /\ WfcOnly

WfcFlushing ==
    \/ \E sn \in 1..serialNum : FlushPendingChunks(sn) /\ WfcOnly
    \/ FlushSyncDatAndPop /\ WfcOnly
    \/ FlushWriteIdx /\ WfcOnly
    \/ FlushPersist /\ WfcOnly

WfcReading ==
    \/ \E lid \in Lids, chunkId \in 0..MaxChunks : ReadStart(lid, chunkId) /\ WfcOnly
    \/ ReadFile /\ WfcOnly

(***************************************************************************)
(* Part II  ReferenceAttribute: the index array of entry refs, the unique  *)
(*          store of references, generations, compaction and the resolved  *)
(*          lids of the parent documents.                                  *)
(***************************************************************************)
\* number of entry refs the unique store can hand out at one time
MaxEntries == 3
\* the generation at which commits stop
MaxGeneration == 3
\* gid to lid changes of the parent not yet delivered to the attribute
MaxNotify == 1

\* summary tasks waiting for the summary executor
MaxSummaryTasks == 2
\* operations fed
MaxFeedSerial == 3

\* minimum dead bytes in unique store before consider compaction
DEAD_BYTES_SLACK == 65536
\* bytes of one unique store entry, scaled so that one dead entry reaches the slack
EntryBytes == 65536
\* compactionStrategy.getMaxDeadBytesRatio(), in percent
MaxDeadBytesRatioPct == 20

DocIds == {0, 1}
Gids == {1, 2}
ParentLids == {0, 1}

\* EntryRef(): the invalid ref
NoRef == 0
NullReference == [gid |-> 0, lid |-> 0]
Dangling == [gid |-> -1, lid |-> -1]
\* an entry whose memory was let go
DeadEntry == [gid |-> 0, lid |-> 0, refCount |-> 0, state |-> "dead", holdGen |-> 0]

IdleRefWriter == [pc |-> "idle", oldRef |-> NoRef, newRef |-> NoRef]
IdleRefReader == [pc |-> "idle", gen |-> 0, ref |-> NoRef]

RefInit ==
    /\ indices = << >>
    /\ store = << >>
    /\ generation = 0
    /\ mapperFactory = FALSE
    /\ populated = FALSE
    /\ parentLid = [g \in Gids |-> 0]
    /\ notifyQ = << >>
    /\ cachedUsage = [used |-> 0, dead |-> 0]
    /\ compactions = 0
    /\ refWriter = IdleRefWriter
    /\ refReader = IdleRefReader

(***************************************************************************)
(* The unique store and the generation handler.                            *)
(***************************************************************************)
LiveRefs(st) == {r \in DOMAIN st : st[r].state = "live"}

\* _store.find(gid): the ref of the live entry with this gid, or the invalid ref
find(st, gid) ==
    IF \E r \in LiveRefs(st) : st[r].gid = gid
    THEN CHOOSE r \in LiveRefs(st) : st[r].gid = gid
    ELSE NoRef

HasRoom(st, gid) == find(st, gid) # NoRef \/ (1..MaxEntries) \ DOMAIN st # {}

\* _store.add(refToAdd): <<ref, store>>; an entry with an equal gid is shared
add(st, gid, lid) ==
    LET r == find(st, gid)
        n == CHOOSE x \in (1..MaxEntries) \ DOMAIN st : TRUE
    IN IF r # NoRef
       THEN <<r, [st EXCEPT ![r].refCount = @ + 1]>>
       ELSE <<n, Extend(st, n, [gid |-> gid, lid |-> lid, refCount |-> 1,
                                state |-> "live", holdGen |-> 0])>>

\* _store.remove(ref): the last user puts the entry on hold
remove(st, ref, gen) ==
    IF st[ref].refCount > 1
    THEN [st EXCEPT ![ref].refCount = @ - 1]
    ELSE [st EXCEPT ![ref].refCount = 0, ![ref].state = "hold", ![ref].holdGen = gen]

\* what is held for a generation before the first used one is let go
CanTrim(holdGen, firstUsed) == holdGen < firstUsed

\* trimHoldLists: held entries become dead, a held buffer is freed
trimHoldLists(st, firstUsed) ==
    LET gone(r) == st[r].state \in {"hold", "moved"} /\ CanTrim(st[r].holdGen, firstUsed)
        kept == {r \in DOMAIN st : ~(gone(r) /\ st[r].state = "moved")}
    IN [r \in kept |-> IF gone(r) THEN DeadEntry ELSE st[r]]

\* the oldest generation a reader guards, the given one if there is none
FirstUsedGeneration(gen) == IF refReader.pc # "idle" THEN Min({refReader.gen, gen}) ELSE gen

\* incGeneration: onGenerationChange, then removeOldGenerations(firstUsed)
incGeneration(st, gen) == trimHoldLists(st, FirstUsedGeneration(gen + 1))

\* _store.getMemoryUsage(), in entries
MemoryUsage(st) ==
    [used |-> Cardinality(DOMAIN st),
     dead |-> Cardinality({r \in DOMAIN st : st[r].state = "dead"})]

(***************************************************************************)
(* The writer thread.                                                      *)
(***************************************************************************)
\* addDoc: a new, unset slot; removeAllOldGenerations
addDoc ==
    /\ refWriter.pc = "idle"
    /\ Cardinality(DOMAIN indices) < Cardinality(DocIds)
    /\ indices' = Extend(indices, Cardinality(DOMAIN indices), NoRef)
    /\ store' = trimHoldLists(store, FirstUsedGeneration(generation))
    /\ UNCHANGED <<generation, mapperFactory, populated, parentLid, notifyQ,
                   cachedUsage, compactions, refWriter, refReader>>

setGidToLidMapperFactory ==
    /\ refWriter.pc = "idle" /\ ~mapperFactory
    /\ mapperFactory' = TRUE
    /\ UNCHANGED <<indices, store, generation, populated, parentLid, notifyQ,
                   cachedUsage, compactions, refWriter, refReader>>

\* update up to the store of the new ref: the lid from the mapper,
\* _store.add(refToAdd), the release fence, _indices[doc] = newRef
UpdatePublish(doc, gid) ==
    /\ refWriter.pc = "idle" /\ doc \in DOMAIN indices
    /\ HasRoom(store, gid)
    /\ LET a == add(store, gid, IF mapperFactory THEN parentLid[gid] ELSE 0)
       IN /\ store' = a[2]
          /\ indices' = [indices EXCEPT ![doc] = a[1]]
          /\ refWriter' = [pc |-> "remove", oldRef |-> indices[doc], newRef |-> a[1]]
    /\ UNCHANGED <<generation, mapperFactory, populated, parentLid, notifyQ,
                   cachedUsage, compactions, refReader>>

\* the new ref is given back
ReleasedNewRef(oldRef, newRef) == newRef

\* the ref that update gives back to the store once the new ref is in the slot
ReleasedRef(oldRef, newRef) == oldRef

\* update: if (oldRef.valid()) _store.remove(oldRef)
UpdateRemove ==
    /\ refWriter.pc = "remove"
    /\ store' = IF refWriter.oldRef # NoRef
                THEN remove(store, ReleasedRef(refWriter.oldRef, refWriter.newRef),
                            generation)
                ELSE store
    /\ refWriter' = IdleRefWriter
    /\ UNCHANGED <<indices, generation, mapperFactory, populated, parentLid,
                   notifyQ, cachedUsage, compactions, refReader>>

clearDoc(doc) ==
    /\ refWriter.pc = "idle" /\ doc \in DOMAIN indices
    /\ indices[doc] # NoRef
    /\ indices' = [indices EXCEPT ![doc] = NoRef]
    /\ store' = remove(store, indices[doc], generation)
    /\ UNCHANGED <<generation, mapperFactory, populated, parentLid, notifyQ,
                   cachedUsage, compactions, refWriter, refReader>>

\* updateStat -> onUpdateStat: the cached memory usage is refreshed
onUpdateStat ==
    /\ refWriter.pc = "idle"
    /\ cachedUsage # MemoryUsage(store)
    /\ cachedUsage' = MemoryUsage(store)
    /\ UNCHANGED <<indices, store, generation, mapperFactory, populated, parentLid,
                   notifyQ, refWriter, refReader, compactions>>

\* considerCompact: compactMemory, from the cached memory usage
CompactMemory ==
    /\ cachedUsage.dead * EntryBytes >= DEAD_BYTES_SLACK
    /\ cachedUsage.used * EntryBytes * MaxDeadBytesRatioPct
           < cachedUsage.dead * EntryBytes * 100

\* the index array is left as it is
RemapNone(to, ref) == ref

\* compactionContext->compact: a valid ref is replaced by the ref of the copy
Remap(to, ref) == IF ref = NoRef THEN NoRef ELSE to[ref]

\* refs for the copies of the live entries once the dead entries are gone
CompactTargets(st) ==
    LET free == (1..MaxEntries) \ {r \in DOMAIN st : st[r].state # "dead"}
    IN {f \in [LiveRefs(st) -> free] : \A a, b \in LiveRefs(st) : a # b => f[a] # f[b]}

\* compactWorst: <<store, index array>>; live entries are copied to a new buffer,
\* the old buffer is held
compactWorst(st, idx, gen) ==
    LET to == CHOOSE f \in CompactTargets(st) : TRUE
        old == {r \in DOMAIN st : st[r].state # "dead"}
        new == {to[r] : r \in LiveRefs(st)}
        from(n) == CHOOSE r \in LiveRefs(st) : to[r] = n
    IN <<[r \in old \cup new |->
              IF r \in new THEN st[from(r)]
              ELSE [st[r] EXCEPT !.refCount = 0, !.state = "moved",
                                 !.holdGen = IF st[r].state = "moved" THEN @ ELSE gen]],
         [d \in DOMAIN idx |-> Remap(to, idx[d])]>>

\* onCommit: incGeneration, and if considerCompact: incGeneration, updateStat(true)
onCommit ==
    /\ refWriter.pc = "idle"
    /\ LET st1 == incGeneration(store, generation)
       IN IF CompactMemory
          THEN /\ generation + 2 <= MaxGeneration
               /\ CompactTargets(st1) # {}
               /\ LET c == compactWorst(st1, indices, generation + 1)
                      st2 == incGeneration(c[1], generation + 1)
                  IN /\ store' = st2
                     /\ indices' = c[2]
                     /\ cachedUsage' = MemoryUsage(st2)
               /\ generation' = generation + 2
               /\ compactions' = compactions + 1
          ELSE /\ generation + 1 <= MaxGeneration
               /\ store' = st1
               /\ generation' = generation + 1
               /\ UNCHANGED <<indices, cachedUsage, compactions>>
    /\ UNCHANGED <<mapperFactory, populated, parentLid, notifyQ, refWriter, refReader>>

(***************************************************************************)
(* The resolved lids.                                                      *)
(***************************************************************************)
\* the parent meta store gives a gid a lid or takes it away; its listener is told
ParentAssign(gid, lid) ==
    /\ parentLid[gid] # lid
    /\ Len(notifyQ) < MaxNotify
    /\ parentLid' = [parentLid EXCEPT ![gid] = lid]
    /\ notifyQ' = Append(notifyQ, [gid |-> gid, lid |-> lid])
    /\ UNCHANGED <<indices, store, generation, mapperFactory, populated,
                   cachedUsage, compactions, refWriter, refReader>>

\* no entry is found
FindNone(st, gid) == NoRef

\* the entry that notifyGidToLidChange is to change
FindChanged(st, gid) == find(st, gid)

\* notifyGidToLidChange(gid, referencedLid), on the writer thread
notifyGidToLidChange ==
    /\ refWriter.pc = "idle" /\ notifyQ # << >>
    /\ LET n == Head(notifyQ)
           ref == FindChanged(store, n.gid)
       IN store' = IF ref # NoRef THEN [store EXCEPT ![ref].lid = n.lid] ELSE store
    /\ notifyQ' = Tail(notifyQ)
    /\ UNCHANGED <<indices, generation, mapperFactory, populated, parentLid,
                   cachedUsage, compactions, refWriter, refReader>>

\* populateReferencedLids: every unique entry is resolved through the mapper
populateReferencedLids ==
    /\ refWriter.pc = "idle"
    /\ IF mapperFactory
       THEN /\ store' = [r \in DOMAIN store |->
                            IF store[r].state = "live"
                            THEN [store[r] EXCEPT !.lid = parentLid[store[r].gid]]
                            ELSE store[r]]
            /\ populated' = TRUE
       ELSE UNCHANGED <<store, populated>>
    /\ UNCHANGED <<indices, generation, mapperFactory, parentLid, notifyQ,
                   cachedUsage, compactions, refWriter, refReader>>

\* getReference(doc): null for an unset doc, else the entry behind the ref
getReference(idx, st, doc) ==
    IF idx[doc] = NoRef THEN NullReference
    ELSE IF idx[doc] \in DOMAIN st /\ st[idx[doc]].state # "dead"
         THEN [gid |-> st[idx[doc]].gid, lid |-> st[idx[doc]].lid]
         ELSE Dangling

\* getReferencedLid(doc)
getReferencedLid(doc) == getReference(indices, store, doc).lid

(***************************************************************************)
(* A reader thread.                                                        *)
(***************************************************************************)
\* the reader takes a generation guard
ReaderTakeGuard ==
    /\ refReader.pc = "idle"
    /\ refReader' = [IdleRefReader EXCEPT !.pc = "guarded", !.gen = generation]
    /\ UNCHANGED <<indices, store, generation, mapperFactory, populated, parentLid,
                   notifyQ, cachedUsage, compactions, refWriter>>

\* getReference: EntryRef ref = _indices[doc]
ReaderLoad(doc) ==
    /\ refReader.pc = "guarded" /\ doc \in DOMAIN indices
    /\ refReader' = [refReader EXCEPT !.pc = "loaded", !.ref = indices[doc]]
    /\ UNCHANGED <<indices, store, generation, mapperFactory, populated, parentLid,
                   notifyQ, cachedUsage, compactions, refWriter>>

\* getReference: &_store.get(ref); the entry is used and the guard is dropped
ReaderDeref ==
    /\ refReader.pc = "loaded"
    /\ refReader' = IdleRefReader
    /\ UNCHANGED <<indices, store, generation, mapperFactory, populated, parentLid,
                   notifyQ, cachedUsage, compactions, refWriter>>

\* the writer thread of the attribute
RefWriting ==
    \/ addDoc /\ RefOnly
    \/ (\E doc \in DocIds, gid \in Gids : UpdatePublish(doc, gid)) /\ RefOnly
    \/ UpdateRemove /\ RefOnly
    \/ (\E doc \in DocIds : clearDoc(doc)) /\ RefOnly

\* commits of the attribute
RefCommitting ==
    \/ onUpdateStat /\ RefOnly
    \/ onCommit /\ RefOnly

\* a reader thread
RefReading ==
    \/ ReaderTakeGuard /\ RefOnly
    \/ (\E doc \in DocIds : ReaderLoad(doc)) /\ RefOnly
    \/ ReaderDeref /\ RefOnly

\* the parent meta store, its mapper and its listener
RefResolving ==
    \/ setGidToLidMapperFactory /\ RefOnly
    \/ (\E gid \in Gids, lid \in ParentLids : ParentAssign(gid, lid)) /\ RefOnly
    \/ notifyGidToLidChange /\ RefOnly
    \/ populateReferencedLids /\ RefOnly

(***************************************************************************)
(* Part III StoreOnlyFeedView: how a put, a remove, an update or a move    *)
(*          goes through the feed view on the master thread, with the      *)
(*          summary executor and the attribute field writer.               *)
(***************************************************************************)
FeedLids == {1, 2}
FeedOpTypes == {"put", "remove"}

\* where an operation places the document: <<getValidDbdId(subDbId),
\* getValidPrevDbdId(subDbId), changedDbdId()>>; a lid is not moved within the
\* sub db (notMovingLidInSameSubDb)
Placements == {<<TRUE, FALSE, TRUE>>, <<TRUE, TRUE, FALSE>>, <<FALSE, TRUE, TRUE>>,
               <<FALSE, FALSE, TRUE>>}

\* an update is of a document that is in this sub db and stays (prepareUpdate)
UpdatePlacement == <<TRUE, TRUE, FALSE>>

\* a move comes to the target sub db, to the source sub db, or moves the lid
\* within the sub db (movingLidIfInSameSubDb)
MovePlacements == {<<TRUE, FALSE, TRUE>>, <<FALSE, TRUE, TRUE>>, <<TRUE, TRUE, TRUE>>}

\* the trace levels of a token that matter to shouldTrace(1)
TraceLevels == {0, 1}

IdleFeedOp == [pc |-> "idle", type |-> "put", withToken |-> FALSE, token |-> FALSE,
               here |-> FALSE, prevHere |-> FALSE, changed |-> FALSE,
               lid |-> 1, prevLid |-> 1, force |-> FALSE, inContext |-> FALSE,
               serial |-> 0, scope |-> FALSE, latest |-> 0, read |-> FALSE,
               prevDoc |-> 0]

\* no move has come
NoMove == [state |-> "none", serial |-> 0]

FeedInit ==
    /\ visibilityDelay \in BOOLEAN
    /\ feedOp = IdleFeedOp
    /\ feedLog = << >>
    /\ summaryQ = << >>
    /\ pendingLids = [l \in FeedLids |-> 0]
    /\ summaryStore = [l \in FeedLids |-> 0]
    /\ feedSerial = 0
    /\ attributeQ = << >>
    /\ moveDone = NoMove
    /\ lidReuse = [l \in FeedLids |-> "free"]

\* the version of lid in the summary store once every task handed to the summary
\* executor so far has run: the serial number of the last put or update of the
\* lid, the negated serial number of a remove, 0 for a lid never written
LatestScheduled(lid) ==
    LET tasks == {i \in DOMAIN summaryQ : summaryQ[i].lid = lid}
    IN  IF tasks = {} THEN summaryStore[lid]
        ELSE summaryQ[CHOOSE i \in tasks : \A j \in tasks : j <= i].val

\* what prepare has found in the meta store: a document that comes to this sub
\* db gets a lid that is free, a document that is in this sub db has its lid
PreparedLids(place, lid, prevLid) ==
    /\ (place[1] /\ place[3]) => lidReuse[lid] = "free"
    /\ place[2] => lidReuse[prevLid] = "inUse"
    /\ place[3] = (lid # prevLid)

\* handlePut / handleRemove / handleUpdate / handleMove: the operation enters
\* internalPut, internalRemove, internalUpdate or handleMove with the next
\* serial number; force is immediateCommit && putOp.getLid() >= oldDocIdLimit,
\* scope is updateScope.hasIndexOrNonAttributeFields()
FeedStart(type, withToken, place, lid, prevLid, force, scope) ==
    /\ feedOp.pc = "idle"
    /\ Len(summaryQ) < MaxSummaryTasks
    /\ feedSerial < MaxFeedSerial
    /\ PreparedLids(place, lid, prevLid)
    /\ IF type = "update"
       THEN place = UpdatePlacement /\ LatestScheduled(lid) > 0
       ELSE ~scope
    /\ type = "move" => moveDone.state # "alive"
    /\ moveDone' = IF type = "move"
                   THEN [state |-> "called", serial |-> feedSerial + 1] ELSE moveDone
    /\ feedSerial' = feedSerial + 1
    /\ feedOp' = [pc |-> "meta", type |-> type, withToken |-> withToken,
                  token |-> withToken, here |-> place[1], prevHere |-> place[2],
                  changed |-> place[3], lid |-> lid, prevLid |-> prevLid,
                  force |-> force, inContext |-> FALSE,
                  serial |-> feedSerial + 1, scope |-> scope,
                  latest |-> LatestScheduled(lid), read |-> FALSE, prevDoc |-> 0]
    /\ feedLog' = << >>
    /\ UNCHANGED <<visibilityDelay, summaryQ, pendingLids, summaryStore, attributeQ,
                   lidReuse>>

\* adjustMetaStore: the meta store is updated and committed: putMetaData or
\* moveMetaData takes the lid into use, removeMetaData takes the document out of
\* the lid that held it (internalUpdate: _metaStore.updateMetaData and commit)
adjustMetaStore ==
    /\ feedOp.pc = "meta"
    /\ feedLog' = Append(feedLog, "meta")
    /\ feedOp' = [feedOp EXCEPT !.pc = IF feedOp.type = "move" THEN "moveWrites"
                                       ELSE "earlyAck"]
    /\ lidReuse' = [l \in FeedLids |->
                      IF feedOp.here /\ l = feedOp.lid THEN "inUse"
                      ELSE IF feedOp.prevHere /\ feedOp.changed /\ l = feedOp.prevLid
                           THEN "removed"
                           ELSE lidReuse[l]]
    /\ UNCHANGED <<visibilityDelay, summaryQ, pendingLids, summaryStore, feedSerial,
                   attributeQ, moveDone>>

\* the token is acknowledged when there is no visibility delay
EarlyAckWithoutDelay(delay, token) == ~delay /\ token

\* the condition of considerEarlyAck
EarlyAck(delay, token) == delay /\ token

\* considerEarlyAck: token->ack(...), token.reset()
considerEarlyAck ==
    /\ feedOp.pc = "earlyAck"
    /\ LET next == IF feedOp.type = "update" THEN "updateWrites" ELSE "writes"
       IN  IF EarlyAck(visibilityDelay, feedOp.token)
           THEN /\ feedLog' = Append(feedLog, "ack")
                /\ feedOp' = [feedOp EXCEPT !.pc = next, !.token = FALSE]
           ELSE /\ feedOp' = [feedOp EXCEPT !.pc = next]
                /\ UNCHANGED feedLog
    /\ UNCHANGED <<visibilityDelay, summaryQ, pendingLids, summaryStore, feedSerial,
                   attributeQ, moveDone, lidReuse>>

\* putSummary / removeSummary: _pendingLidTracker.produce(lid), a task for the
\* summary executor that writes val for the lid; a task that takes its document
\* from a future is not ready until the future is set; holdsMove: the task holds
\* a done context that holds the move-done callback
putSummary(lid, val, ready, holdsMove) ==
    /\ pendingLids' = [pendingLids EXCEPT ![lid] = @ + 1]
    /\ summaryQ' = Append(summaryQ, [lid |-> lid, val |-> val, ready |-> ready,
                                     holdsMove |-> holdsMove, broken |-> FALSE])

\* the writes come in another order
PutStepsIndexFirst == <<"index", "summary", "attributes">>

\* internalPut: putSummary, putAttributes, putIndexedFields, as they are issued
PutSteps == <<"summary", "attributes", "index">>

\* createPutDoneContext: a done context is made if (token || force)
ContextCreated(token, force) == token \/ force

\* createPutDoneContext: the done context takes the token if (token || force)
TakenByContext(token, force) == token

\* the writes of a document placed in this sub db: internalPut creates the done
\* context and issues putSummary, putAttributes, putIndexedFields; internalRemove
\* issues putSummary of an empty document
FeedWrites ==
    /\ feedOp.pc = "writes"
    /\ IF feedOp.here
       THEN /\ putSummary(feedOp.lid, feedOp.serial, TRUE, FALSE)
            /\ IF feedOp.type = "put"
               THEN /\ feedLog' = feedLog \o PutSteps
                    /\ feedOp' = [feedOp EXCEPT
                           !.pc = "removePrev",
                           !.inContext = TakenByContext(feedOp.token, feedOp.force),
                           !.token = FALSE]
               ELSE /\ feedLog' = Append(feedLog, "summary")
                    /\ feedOp' = [feedOp EXCEPT !.pc = "removePrev"]
       ELSE /\ feedOp' = [feedOp EXCEPT !.pc = "removePrev"]
            /\ UNCHANGED <<feedLog, summaryQ, pendingLids>>
    /\ UNCHANGED <<visibilityDelay, summaryStore, feedSerial, attributeQ, moveDone,
                   lidReuse>>

\* internalRemove(token, serialNum, lid, ...): removeSummary, delayReuse,
\* removeAttributes, removeIndexedFields; the remove done context lives until
\* internalRemove returns, then a lid of explicit reuse is handed to the master
\* thread for removeComplete; otherwise the lid stays with the reuse delayer
internalRemove(lid, val, explicitReuseLid) ==
    /\ putSummary(lid, val, TRUE, FALSE)
    /\ feedLog' = feedLog \o <<"removeSummary", "removeAttributes", "removeIndex">>
    /\ lidReuse' = [lidReuse EXCEPT
                       ![lid] = IF explicitReuseLid THEN "scheduled" ELSE "delayed"]

\* the document was in this sub db and is now placed elsewhere:
\* internalRemove(std::move(token), serialNum, prevLid, ...), the token goes to
\* the remove done context
FeedRemovePrev(explicitReuseLid) ==
    /\ feedOp.pc = "removePrev"
    /\ IF feedOp.prevHere /\ feedOp.changed
       THEN /\ internalRemove(feedOp.prevLid, -feedOp.serial, explicitReuseLid)
            /\ feedOp' = [feedOp EXCEPT !.pc = "finalAck",
                             !.inContext = @ \/ feedOp.token, !.token = FALSE]
       ELSE /\ ~explicitReuseLid
            /\ feedOp' = [feedOp EXCEPT !.pc = "finalAck"]
            /\ UNCHANGED <<feedLog, summaryQ, pendingLids, lidReuse>>
    /\ UNCHANGED <<visibilityDelay, summaryStore, feedSerial, attributeQ, moveDone>>

\* if (token.get() != NULL) token->ack(...)
FeedFinalAck ==
    /\ feedOp.pc = "finalAck"
    /\ feedLog' = IF feedOp.token THEN Append(feedLog, "ack") ELSE feedLog
    /\ feedOp' = [feedOp EXCEPT !.pc = "idle", !.token = FALSE]
    /\ UNCHANGED <<visibilityDelay, summaryQ, pendingLids, summaryStore, feedSerial,
                   attributeQ, moveDone, lidReuse>>

\* a task of the summary executor: it waits for its future, the summary adapter
\* is written, _pendingLidTracker.consume(lid); the done context the task holds
\* goes with the task, and with the last holder gone the move-done callback fires
SummaryTask ==
    /\ summaryQ # << >>
    /\ Head(summaryQ).ready /\ ~Head(summaryQ).broken
    /\ summaryStore' = [summaryStore EXCEPT ![Head(summaryQ).lid] = Head(summaryQ).val]
    /\ pendingLids' = [pendingLids EXCEPT ![Head(summaryQ).lid] = @ - 1]
    /\ summaryQ' = Tail(summaryQ)
    /\ moveDone' = IF Head(summaryQ).holdsMove /\ moveDone.state = "alive"
                   THEN [moveDone EXCEPT !.state = "fired"] ELSE moveDone
    /\ UNCHANGED <<visibilityDelay, feedOp, feedLog, feedSerial, attributeQ, lidReuse>>

\* internalUpdate: createUpdateDoneContext takes the token, updateAttributes
UpdateAttributes ==
    /\ feedOp.pc = "updateWrites"
    /\ feedLog' = Append(feedLog, "attributes")
    /\ feedOp' = [feedOp EXCEPT !.pc = IF feedOp.scope THEN "waitLid" ELSE "trace",
                     !.inContext = feedOp.token, !.token = FALSE]
    /\ UNCHANGED <<visibilityDelay, summaryQ, pendingLids, summaryStore, feedSerial,
                   attributeQ, moveDone, lidReuse>>

\* the update goes on without waiting
ConsumedLidAtOnce(pending, lid) == TRUE

\* _pendingLidTracker.waitForConsumedLid(lid) returns
ConsumedLid(pending, lid) == pending[lid] = 0

\* internalUpdate: the master thread waits for the lid, then hands the summary
\* executor a put that takes the new document from a future
UpdateSummary ==
    /\ feedOp.pc = "waitLid"
    /\ ConsumedLid(pendingLids, feedOp.lid)
    /\ putSummary(feedOp.lid, feedOp.serial, FALSE, FALSE)
    /\ feedLog' = Append(feedLog, "summary")
    /\ feedOp' = [feedOp EXCEPT !.pc = "updateRead"]
    /\ UNCHANGED <<visibilityDelay, summaryStore, feedSerial, attributeQ, moveDone,
                   lidReuse>>

\* internalUpdate: prevDoc = _summaryAdapter->get(lid, *_repo) is read on the
\* master thread and given to a task of the attribute field writer
UpdateRead ==
    /\ feedOp.pc = "updateRead"
    /\ feedOp' = [feedOp EXCEPT !.pc = "trace", !.read = TRUE,
                     !.prevDoc = summaryStore[feedOp.lid]]
    /\ attributeQ' = Append(attributeQ, feedOp.serial)
    /\ UNCHANGED <<visibilityDelay, feedLog, summaryQ, pendingLids, summaryStore,
                   feedSerial, moveDone, lidReuse>>

\* OperationDoneContext::shouldTrace: the context holds a token that traces
shouldTrace(inContext, traceLevel) == inContext /\ traceLevel >= 1

\* internalUpdate, its last statement: if (!updateScope._indexedFields &&
\* onWriteDone) and onWriteDone->shouldTrace(1), token->trace(...) is called
\* through the token variable; when createUpdateDoneContext has moved from it a
\* null pointer is dereferenced, and the master thread stops or goes on
UpdateTrace(indexedFields, traceLevel) ==
    /\ feedOp.pc = "trace"
    /\ indexedFields => feedOp.scope
    /\ IF ~indexedFields /\ shouldTrace(feedOp.inContext, traceLevel)
       THEN IF feedOp.token
            THEN /\ feedLog' = Append(feedLog, "trace")
                 /\ feedOp' = [feedOp EXCEPT !.pc = "idle"]
            ELSE /\ feedLog' = Append(feedLog, "traceNull")
                 /\ \E next \in {"idle", "crashed"} :
                        feedOp' = [feedOp EXCEPT !.pc = next]
       ELSE /\ feedOp' = [feedOp EXCEPT !.pc = "idle"]
            /\ UNCHANGED feedLog
    /\ UNCHANGED <<visibilityDelay, summaryQ, pendingLids, summaryStore, feedSerial,
                   attributeQ, moveDone, lidReuse>>

\* internalUpdate of an operation without an update: "ignoring invalid update
\* operation", return; the token goes out of scope
UpdateIgnored(withToken) ==
    /\ feedOp.pc = "idle"
    /\ feedSerial < MaxFeedSerial
    /\ feedSerial' = feedSerial + 1
    /\ feedOp' = [IdleFeedOp EXCEPT !.type = "update", !.withToken = withToken,
                                    !.serial = feedSerial + 1]
    /\ feedLog' = <<"ignored">>
    /\ UNCHANGED <<visibilityDelay, summaryQ, pendingLids, summaryStore, attributeQ,
                   moveDone, lidReuse>>

\* makeUpdatedDocument on the attribute field writer: the update is applied to
\* prevDoc and the futures are set
makeUpdatedDocument ==
    /\ attributeQ # << >>
    /\ summaryQ' = [i \in DOMAIN summaryQ |->
                      IF summaryQ[i].val = Head(attributeQ)
                      THEN [summaryQ[i] EXCEPT !.ready = TRUE] ELSE summaryQ[i]]
    /\ attributeQ' = Tail(attributeQ)
    /\ UNCHANGED <<visibilityDelay, feedOp, feedLog, pendingLids, summaryStore,
                   feedSerial, moveDone, lidReuse>>

\* makeUpdatedDocument is left by an exception (the update cannot be applied to
\* the document): promisedDoc and promisedStream go out of scope unset, which
\* breaks the futures
makeUpdatedDocumentThrows ==
    /\ attributeQ # << >>
    /\ summaryQ' = [i \in DOMAIN summaryQ |->
                      IF summaryQ[i].val = Head(attributeQ)
                      THEN [summaryQ[i] EXCEPT !.ready = TRUE, !.broken = TRUE]
                      ELSE summaryQ[i]]
    /\ attributeQ' = Tail(attributeQ)
    /\ UNCHANGED <<visibilityDelay, feedOp, feedLog, pendingLids, summaryStore,
                   feedSerial, moveDone, lidReuse>>

\* the task of putSummary with a future stream: futureStream.get() throws for a
\* broken future, and the task is left before _pendingLidTracker.consume(lid)
SummaryTaskThrows ==
    /\ summaryQ # << >>
    /\ Head(summaryQ).ready /\ Head(summaryQ).broken
    /\ summaryQ' = Tail(summaryQ)
    /\ UNCHANGED <<visibilityDelay, feedOp, feedLog, pendingLids, summaryStore,
                   feedSerial, attributeQ, moveDone, lidReuse>>

\* handleMove, the put into the new placement: createPutDoneContext with no
\* token makes a done context, which holds the move-done callback, only if
\* force; putSummary, putAttributes, putIndexedFields
MoveWrites ==
    /\ feedOp.pc = "moveWrites"
    /\ IF feedOp.here
       THEN /\ putSummary(feedOp.lid, feedOp.serial, TRUE,
                          ContextCreated(feedOp.token, feedOp.force))
            /\ feedLog' = feedLog \o PutSteps
       ELSE UNCHANGED <<feedLog, summaryQ, pendingLids>>
    /\ feedOp' = [feedOp EXCEPT !.pc = "moveRemove"]
    /\ UNCHANGED <<visibilityDelay, summaryStore, feedSerial, attributeQ, moveDone,
                   lidReuse>>

\* handleMove, the remove from the old placement: internalRemove(FeedToken::UP(),
\* serialNum, prevLid, type, doneCtx); handleMove returns and lets go of doneCtx,
\* which fires unless a task still holds it
MoveRemove(explicitReuseLid) ==
    /\ feedOp.pc = "moveRemove"
    /\ IF feedOp.prevHere /\ feedOp.changed
       THEN internalRemove(feedOp.prevLid, -feedOp.serial, explicitReuseLid)
       ELSE ~explicitReuseLid /\ UNCHANGED <<feedLog, summaryQ, pendingLids, lidReuse>>
    /\ feedOp' = [feedOp EXCEPT !.pc = "idle"]
    /\ moveDone' = [moveDone EXCEPT !.state =
                       IF \E i \in DOMAIN summaryQ : summaryQ[i].holdsMove
                       THEN "alive" ELSE "fired"]
    /\ UNCHANGED <<visibilityDelay, summaryStore, feedSerial, attributeQ>>

\* forceCommit: _lidReuseDelayer.getReuseLids() go to the force commit context,
\* which hands them to the master thread when it is let go at the end of the call
forceCommit ==
    /\ feedOp.pc = "idle"
    /\ \E l \in FeedLids : lidReuse[l] = "delayed"
    /\ lidReuse' = [l \in FeedLids |->
                      IF lidReuse[l] = "delayed" THEN "scheduled" ELSE lidReuse[l]]
    /\ UNCHANGED <<visibilityDelay, feedOp, feedLog, summaryQ, pendingLids,
                   summaryStore, feedSerial, attributeQ, moveDone>>

\* the task of a done context on the master thread: _metaStore.removeComplete(lid)
\* (removeBatchComplete, reuseLids) gives the lid back for reuse
removeComplete(lid) ==
    /\ feedOp.pc = "idle"
    /\ lidReuse[lid] = "scheduled"
    /\ lidReuse' = [lidReuse EXCEPT ![lid] = "free"]
    /\ UNCHANGED <<visibilityDelay, feedOp, feedLog, summaryQ, pendingLids,
                   summaryStore, feedSerial, attributeQ, moveDone>>

\* removeDocuments: _metaStore.removeBatch, delayReuse(lidsToRemove),
\* removeIndexedFields and removeAttributes with the callback that schedules
\* removeBatchComplete, removeSummary of every lid, and removeBatchComplete at
\* once if (explicitReuseLids && !onWriteDone)
removeDocuments(lidsToRemove, remove_index_and_attributes, explicitReuseLids) ==
    /\ feedOp.pc = "idle"
    /\ lidsToRemove # {}
    /\ \A l \in lidsToRemove : lidReuse[l] = "inUse"
    /\ Len(summaryQ) + Cardinality(lidsToRemove) <= MaxSummaryTasks
    /\ feedSerial < MaxFeedSerial
    /\ feedSerial' = feedSerial + 1
    /\ LET n == Cardinality(lidsToRemove)
           ordered == CHOOSE s \in [1..n -> lidsToRemove] :
                          \A i, j \in 1..n : i < j => s[i] < s[j]
       IN  summaryQ' = summaryQ \o
               [i \in 1..n |-> [lid |-> ordered[i], val |-> -(feedSerial + 1),
                                ready |-> TRUE, holdsMove |-> FALSE, broken |-> FALSE]]
    /\ pendingLids' = [l \in FeedLids |->
                         pendingLids[l] + IF l \in lidsToRemove THEN 1 ELSE 0]
    /\ lidReuse' = [l \in FeedLids |->
                      IF l \notin lidsToRemove THEN lidReuse[l]
                      ELSE IF ~explicitReuseLids THEN "delayed"
                      ELSE IF remove_index_and_attributes THEN "scheduled"
                      ELSE "free"]
    /\ UNCHANGED <<visibilityDelay, feedOp, feedLog, summaryStore, attributeQ, moveDone>>

\* the master thread and the summary executor, puts and removes
FeedNext ==
    \/ (\E type \in FeedOpTypes, withToken \in BOOLEAN, place \in Placements,
           lid \in FeedLids, prevLid \in FeedLids, force \in BOOLEAN :
           FeedStart(type, withToken, place, lid, prevLid, force, FALSE)) /\ FeedOnly
    \/ adjustMetaStore /\ FeedOnly
    \/ considerEarlyAck /\ FeedOnly
    \/ FeedWrites /\ FeedOnly
    \/ (\E explicitReuseLid \in BOOLEAN : FeedRemovePrev(explicitReuseLid)) /\ FeedOnly
    \/ FeedFinalAck /\ FeedOnly
    \/ SummaryTask /\ FeedOnly

\* updates and the attribute field writer
FeedUpdating ==
    \/ (\E withToken \in BOOLEAN, lid \in FeedLids, scope \in BOOLEAN :
           FeedStart("update", withToken, UpdatePlacement, lid, lid, FALSE, scope))
       /\ FeedOnly
    \/ UpdateAttributes /\ FeedOnly
    \/ UpdateSummary /\ FeedOnly
    \/ UpdateRead /\ FeedOnly
    \/ (\E indexedFields \in BOOLEAN, traceLevel \in TraceLevels :
           UpdateTrace(indexedFields, traceLevel)) /\ FeedOnly
    \/ makeUpdatedDocument /\ FeedOnly

\* updates that cannot be applied
FeedFailing ==
    \/ makeUpdatedDocumentThrows /\ FeedOnly
    \/ SummaryTaskThrows /\ FeedOnly

\* updates without an update
FeedIgnoring ==
    (\E withToken \in BOOLEAN : UpdateIgnored(withToken)) /\ FeedOnly

\* moves
FeedMoving ==
    \/ (\E place \in MovePlacements, lid \in FeedLids, prevLid \in FeedLids,
           force \in BOOLEAN :
           FeedStart("move", FALSE, place, lid, prevLid, force, FALSE)) /\ FeedOnly
    \/ MoveWrites /\ FeedOnly
    \/ (\E explicitReuseLid \in BOOLEAN : MoveRemove(explicitReuseLid)) /\ FeedOnly

\* lid reuse: commits, the tasks of the done contexts, batched removal
FeedReusing ==
    \/ forceCommit /\ FeedOnly
    \/ (\E lid \in FeedLids : removeComplete(lid)) /\ FeedOnly
    \/ (\E lidsToRemove \in SUBSET FeedLids, remove_index_and_attributes \in BOOLEAN,
           explicitReuseLids \in BOOLEAN :
           removeDocuments(lidsToRemove, remove_index_and_attributes, explicitReuseLids))
       /\ FeedOnly

(***************************************************************************)
(* Part IV  StructuredFieldValue: the fields of a struct and the           *)
(*          transaction that buffers removes and updates.                  *)
(***************************************************************************)
StructFieldIds == {1, 2, 3}
FieldValues == {1, 2}
\* FieldValue::UP(): no value
NullValue == 0

\* a field the StructuredCache has no entry for
NoEntry == [status |-> "absent", value |-> NullValue]

\* _cache is null
NoCache == [open |-> FALSE, entries |-> [f \in StructFieldIds |-> NoEntry]]

\* no iteration has read a field
NothingRead == [reads |-> {}, crashed |-> FALSE]

StructInit ==
    /\ structFields = [f \in StructFieldIds |-> NullValue]
    /\ structCache = NoCache
    /\ structAtBegin = structFields
    /\ structExpected = structFields
    /\ structRead = NothingRead

\* StructuredFieldValue::beginTransaction
beginTransaction ==
    /\ structCache' = [open |-> TRUE, entries |-> [f \in StructFieldIds |-> NoEntry]]
    /\ structAtBegin' = structFields
    /\ structExpected' = structFields
    /\ UNCHANGED structFields

\* StructuredCache::set: _cache[field] = (status, value)
CacheSet(cache, field, value, status) ==
    [cache EXCEPT !.entries[field] = [status |-> status, value |-> value]]

\* StructuredFieldValue::remove: _cache->remove(field) or removeFieldValue(field)
structRemove(field) ==
    /\ structExpected' = [structExpected EXCEPT ![field] = NullValue]
    /\ IF structCache.open
       THEN /\ structCache' = CacheSet(structCache, field, NullValue, "REMOVED")
            /\ UNCHANGED <<structFields, structAtBegin>>
       ELSE /\ structFields' = [structFields EXCEPT ![field] = NullValue]
            /\ structAtBegin' = structFields'
            /\ UNCHANGED structCache

\* StructuredFieldValue::updateValue: _cache->set(field, value, MODIFIED) or
\* setFieldValue(field, value)
updateValue(field, value) ==
    /\ structExpected' = [structExpected EXCEPT ![field] = value]
    /\ IF structCache.open
       THEN /\ structCache' = CacheSet(structCache, field, value, "MODIFIED")
            /\ UNCHANGED <<structFields, structAtBegin>>
       ELSE /\ structFields' = [structFields EXCEPT ![field] = value]
            /\ structAtBegin' = structFields'
            /\ UNCHANGED structCache

\* the commit leaves the field as it is stored
CommittedNever(entry, stored) == stored

\* commitTransaction, one entry of the cache: removeFieldValue if REMOVED,
\* setFieldValue if MODIFIED
Committed(entry, stored) ==
    IF entry.status = "REMOVED" THEN NullValue
    ELSE IF entry.status = "MODIFIED" THEN entry.value
    ELSE stored

\* StructuredFieldValue::commitTransaction
commitTransaction ==
    /\ structCache.open
    /\ structFields' = [f \in StructFieldIds |->
                          Committed(structCache.entries[f], structFields[f])]
    /\ structCache' = NoCache
    /\ UNCHANGED <<structAtBegin, structExpected>>

\* a struct that is edited, with and without a transaction
StructNext ==
    \/ beginTransaction /\ UNCHANGED structRead /\ StructOnly
    \/ (\E field \in StructFieldIds : structRemove(field))
       /\ UNCHANGED structRead /\ StructOnly
    \/ (\E field \in StructFieldIds, value \in FieldValues : updateValue(field, value))
       /\ UNCHANGED structRead /\ StructOnly
    \/ commitTransaction /\ UNCHANGED structRead /\ StructOnly

\* the fields the field paths of the iterations lead to
IteratedFieldIds == {1, 2}

\* the status an iteration below a field comes back with
ModificationStatus == {"NOT_MODIFIED", "MODIFIED", "REMOVED"}

\* StructuredFieldValue::returnValue: _cache->set(field, value, NOT_MODIFIED)
returnValue(cache, field, value) ==
    IF cache.open THEN CacheSet(cache, field, value, "NOT_MODIFIED") ELSE cache

\* StructuredFieldValue::getValue(field, FieldValue::UP()): <<the value, _cache
\* after the call>>; a field without entry is read from the struct and gets an
\* entry without value, the value of an entry is moved out of the entry
getValue(cache, stored, field) ==
    IF cache.open
    THEN IF cache.entries[field].status = "absent"
         THEN <<stored[field], CacheSet(cache, field, NullValue, "NOT_MODIFIED")>>
         ELSE <<cache.entries[field].value,
                [cache EXCEPT !.entries[field].value = NullValue]>>
    ELSE <<stored[field], cache>>

\* what is known of a read: the value getValue gave and the value the field has
\* by the calls made so far
ReadOf(field, value) ==
    [field |-> field, value |-> value, expect |-> structExpected[field],
     open |-> structCache.open]

\* onIterateNested, the path goes on with a struct field: getValue, the
\* iteration below the field comes back with status (a MODIFIED value is
\* newValue), then remove, updateValue or returnValue; for a field without
\* value the value to set is iterated if the handler creates missing paths
IterateStructField(field, status, newValue, createMissingPath) ==
    /\ ~structRead.crashed
    /\ LET got == getValue(structCache, structFields, field)
       IN /\ structRead' = [reads |-> {ReadOf(field, got[1])}, crashed |-> FALSE]
          /\ IF got[1] # NullValue
             THEN IF status = "REMOVED" THEN structRemove(field)
                  ELSE IF status = "MODIFIED" THEN updateValue(field, newValue)
                  ELSE /\ structCache' = returnValue(got[2], field, got[1])
                       /\ UNCHANGED <<structFields, structAtBegin, structExpected>>
             ELSE IF createMissingPath /\ status = "MODIFIED"
                  THEN updateValue(field, newValue)
                  ELSE /\ structCache' = got[2]
                       /\ UNCHANGED <<structFields, structAtBegin, structExpected>>

\* onIterateNested, the path ends at the struct and the handler handles
\* complex values: for every field of the struct getValue(field) is iterated
\* (through a null pointer if getValue gives no value: the iteration stops
\* there or goes on); a field that comes back REMOVED is removed after the loop,
\* a field that comes back MODIFIED was modified in the value getValue gave,
\* which is stored nowhere
IterateAllFields(statuses) ==
    /\ ~structRead.crashed
    /\ LET set == {f \in StructFieldIds : structFields[f] # NullValue}
           got == [f \in StructFieldIds |-> getValue(structCache, structFields, f)]
           read == [structCache EXCEPT !.entries =
                       [f \in StructFieldIds |->
                           IF f \in set THEN got[f][2].entries[f] ELSE @[f]]]
           removed == {f \in set : statuses[f] = "REMOVED"}
           stops == \E f \in set : got[f][1] = NullValue
       IN /\ set # {}
          /\ \E crashed \in (IF stops THEN BOOLEAN ELSE {FALSE}) :
                /\ structRead' = [reads |-> {ReadOf(f, got[f][1]) : f \in set},
                                  crashed |-> crashed]
                /\ IF crashed
                   THEN /\ structCache' = read
                        /\ UNCHANGED <<structFields, structAtBegin, structExpected>>
                   ELSE /\ structExpected' = [f \in StructFieldIds |->
                               IF f \in removed THEN NullValue ELSE structExpected[f]]
                        /\ IF structCache.open
                           THEN /\ structCache' = [read EXCEPT !.entries =
                                       [f \in StructFieldIds |->
                                           IF f \in removed
                                           THEN [status |-> "REMOVED", value |-> NullValue]
                                           ELSE @[f]]]
                                /\ UNCHANGED <<structFields, structAtBegin>>
                           ELSE /\ structFields' = [f \in StructFieldIds |->
                                       IF f \in removed THEN NullValue
                                       ELSE structFields[f]]
                                /\ structAtBegin' = structFields'
                                /\ UNCHANGED structCache

\* a struct that is edited and iterated, with and without a transaction
StructIterating ==
    \/ (\E field \in IteratedFieldIds, status \in ModificationStatus,
           newValue \in FieldValues, createMissingPath \in BOOLEAN :
           IterateStructField(field, status, newValue, createMissingPath)) /\ StructOnly
    \/ (\E statuses \in [StructFieldIds -> ModificationStatus] :
           /\ \A f \in StructFieldIds \ IteratedFieldIds : statuses[f] = "NOT_MODIFIED"
           /\ IterateAllFields(statuses)) /\ StructOnly

(***************************************************************************)
(* Part V   DynamicDocsumWriter: override writers, class resolution and    *)
(*          the writing of one docsum.                                     *)
(***************************************************************************)
\* ResultConfig::NoClassID()
NoClassID == 2147483647
\* a class pointer that is NULL
NullClass == -1
\* a slot of the override table that is NULL
NullWriter == "null"
\* a writer is told apart by IsGenerated()
DocsumWriters == {"generated", "stored"}

\* the result config: the field name enum has three names (enum values 0..2),
\* and two result classes, given by the enum values of their entries
FieldNameEnum == {"a", "b", "c"}
numEnumValues == Cardinality(FieldNameEnum)
EnumValues == 0..(numEnumValues - 1)
ClassIds == {0, 1}
ClassEntries == (0 :> <<0, 1>>) @@ (1 :> <<1, 2>>)
\* docinfos->getSummaryClassId(): the class id of the store, which the result
\* config may not know
StoreClassIds == ClassIds \cup {2}

GetNumEntries(class) == Len(ClassEntries[class])
\* ResultClass::GetIndexFromEnumValue: the index of the entry, or -1
GetIndexFromEnumValue(class, enumValue) ==
    IF \E i \in 1..Len(ClassEntries[class]) : ClassEntries[class][i] = enumValue
    THEN (CHOOSE i \in 1..Len(ClassEntries[class]) : ClassEntries[class][i] = enumValue) - 1
    ELSE -1
\* ResultConfig::LookupResultClass: the class of an id, or NULL
LookupResultClass(id) == IF id \in ClassIds THEN id ELSE NullClass

NoOverride == [fieldEnumValue |-> numEnumValues, writer |-> NullWriter, ret |-> FALSE]
NoClassInfo ==
    [mustSkip |-> FALSE, allGenerated |-> FALSE, outputClassId |-> NoClassID,
     outputClass |-> NullClass, inputClass |-> NullClass]
NoDocsum ==
    [requested |-> NoClassID, generated |-> {}, rci |-> NoClassInfo, result |-> "none",
     storeCalls |-> {}, unpack |-> FALSE, writers |-> {}, converted |-> {}]

DocsumInit ==
    /\ overrideTable = [e \in EnumValues |-> NullWriter]
    /\ classInfoTable = [c \in ClassIds |-> [overrideCnt |-> 0, generateCnt |-> 0]]
    /\ defaultOutputClass = NoClassID
    /\ accepted = {}
    /\ lastOverride = NoOverride
    /\ docsum = NoDocsum

SetDefaultOutputClass(classID) ==
    /\ LookupResultClass(classID) # NullClass
    /\ defaultOutputClass = NoClassID
    /\ defaultOutputClass' = classID
    /\ UNCHANGED <<overrideTable, classInfoTable, accepted, lastOverride, docsum>>

\* the test of lines 259-260 that sends an Override call away
OverrideRejectsUnknownOnly(fieldEnumValue) == fieldEnumValue >= numEnumValues
OverrideRejects(fieldEnumValue) ==
    \/ fieldEnumValue >= numEnumValues
    \/ overrideTable[fieldEnumValue] # NullWriter

\* fieldEnumValue is what the field name enum gives for the name of the call:
\* numEnumValues stands for a name the enum does not have
Override(fieldEnumValue, writer) ==
    /\ IF OverrideRejects(fieldEnumValue)
       THEN /\ lastOverride' = [fieldEnumValue |-> fieldEnumValue, writer |-> writer,
                                ret |-> FALSE]
            /\ UNCHANGED <<overrideTable, classInfoTable, accepted>>
       ELSE /\ overrideTable' =
                   [e \in EnumValues |->
                       IF e = fieldEnumValue THEN writer ELSE overrideTable[e]]
            /\ classInfoTable' =
                   [c \in ClassIds |->
                       IF GetIndexFromEnumValue(c, fieldEnumValue) >= 0
                       THEN [overrideCnt |-> classInfoTable[c].overrideCnt + 1,
                             generateCnt |-> classInfoTable[c].generateCnt
                                             + (IF writer = "generated" THEN 1 ELSE 0)]
                       ELSE classInfoTable[c]]
            /\ accepted' = accepted \cup {<<fieldEnumValue, writer>>}
            /\ lastOverride' = [fieldEnumValue |-> fieldEnumValue, writer |-> writer,
                                ret |-> TRUE]
    /\ UNCHANGED <<defaultOutputClass, docsum>>

\* the test of line 56, and one that never finds a class all generated
AllGeneratedNever(rcInfo, numEntries) == FALSE
AllGenerated(rcInfo, numEntries) == rcInfo.generateCnt = numEntries

\* found: the result config has the class name of the request, and named is its id
resolveOutputClass(found, named) ==
    LET id == IF found THEN named ELSE defaultOutputClass
        oC == LookupResultClass(id)
    IN  IF id # NoClassID
        THEN IF oC = NullClass
             THEN [NoClassInfo EXCEPT !.mustSkip = TRUE, !.outputClassId = id]
             ELSE [NoClassInfo EXCEPT
                      !.outputClass = oC,
                      !.allGenerated =
                          AllGenerated(classInfoTable[oC], GetNumEntries(oC)),
                      !.outputClassId = id]
        ELSE [NoClassInfo EXCEPT !.outputClassId = id]

resolveInputClass(rci, id) ==
    LET inputClass == LookupResultClass(id)
    IN  IF inputClass = NullClass
        THEN [rci EXCEPT !.inputClass = NullClass, !.mustSkip = TRUE]
        ELSE IF rci.outputClass = NullClass
             THEN [rci EXCEPT !.inputClass = inputClass, !.outputClassId = id,
                              !.outputClass = inputClass]
             ELSE [rci EXCEPT !.inputClass = inputClass]

resolveClassInfo(found, named, inputClassId) ==
    LET rci == resolveOutputClass(found, named)
    IN  IF ~rci.mustSkip /\ ~rci.allGenerated THEN resolveInputClass(rci, inputClassId) ELSE rci

Entries(class) == {ClassEntries[class][i] : i \in 1..Len(ClassEntries[class])}

\* unpacked: what gres.inplaceUnpack(value) returns. With a NULL input class, or
\* with a NULL output class after the unpack, the code dereferences a null
\* pointer: the result is then undefined
insertDocsum(rci, unpacked) ==
    IF rci.allGenerated
    THEN [NoDocsum EXCEPT !.rci = rci, !.result = "object",
                          !.writers = Entries(rci.outputClass)]
    ELSE LET read == [NoDocsum EXCEPT !.rci = rci, !.storeCalls = {"getMappedDocsum"},
                                      !.unpack = TRUE]
         IN  IF ~unpacked
             THEN [read EXCEPT !.result = "nix"]
             ELSE IF rci.inputClass = NullClass \/ rci.outputClass = NullClass
                  THEN [read EXCEPT !.result = "undefined"]
                  ELSE [read EXCEPT
                           !.result = "object",
                           !.writers = {e \in Entries(rci.outputClass) :
                                            overrideTable[e] # NullWriter},
                           !.converted =
                               {e \in Entries(rci.outputClass) :
                                   /\ overrideTable[e] = NullWriter
                                   /\ GetIndexFromEnumValue(rci.inputClass, e) >= 0}]

WriteDocsum(found, named, inputClassId, unpacked) ==
    /\ docsum' =
           LET written == insertDocsum(resolveClassInfo(found, named, inputClassId),
                                       unpacked)
           IN  [written EXCEPT
                   !.storeCalls = @ \cup {"getSummaryClassId"},
                   !.requested = IF found THEN named ELSE defaultOutputClass,
                   !.generated = {e \in EnumValues : overrideTable[e] = "generated"}]
    /\ UNCHANGED <<overrideTable, classInfoTable, defaultOutputClass, accepted,
                   lastOverride>>

DocsumNext ==
    \/ (\E classID \in StoreClassIds : SetDefaultOutputClass(classID)) /\ DocsumOnly
    \/ (\E fieldEnumValue \in 0..numEnumValues, writer \in DocsumWriters :
           Override(fieldEnumValue, writer)) /\ DocsumOnly
    \/ (\E found \in BOOLEAN, named \in ClassIds, inputClassId \in StoreClassIds,
           unpacked \in BOOLEAN : WriteDocsum(found, named, inputClassId, unpacked))
       /\ DocsumOnly

(***************************************************************************)
(* Part VI  NodeAllocation: the nodes offered to a cluster, the nodes it   *)
(*          accepts and the final list.                                    *)
(***************************************************************************)
\* a node without a parent host, and the parent hosts of the docker nodes
NoParent == "none"
ParentHosts == {"hostP"}
NodeStates == {"active", "inactive", "ready"}
ClusterTypes == {"content", "container"}
\* the membership indexes the nodes of the cluster have before the allocation
OldIndexes == 0..(MaxOffered - 1)

\* no allocation made yet
NoRequest == [count |-> 0, type |-> "none"]

AllocInit ==
    /\ allocRequest = NoRequest
    /\ allocNodes = {}
    /\ acceptedOfRequestedFlavor = 0
    /\ rejectedWithClashingParentHost = 0
    /\ wasRetiredJustNow = 0
    /\ indexes = {}
    /\ highestIndex = -1
    /\ offeredCount = 0
    /\ finalList = [called |-> FALSE, nodes |-> {}, surplusNodes |-> {}]
    /\ earlierIndexes = {}

\* new NodeAllocation(application, cluster, requestedNodes, highestIndex, clock)
\* for a request of count nodes
NodeAllocation(type, count) ==
    /\ allocRequest = NoRequest
    /\ allocRequest' = [count |-> count, type |-> type]
    /\ UNCHANGED <<allocNodes, acceptedOfRequestedFlavor, rejectedWithClashingParentHost,
                   wasRetiredJustNow, indexes, highestIndex, offeredCount, finalList,
                   earlierIndexes>>

\* the allocation of the next group of the cluster: a new NodeAllocation with the
\* same requestedNodes that is given the highestIndex of the one before it
NodeAllocationOfNextGroup ==
    /\ finalList.called
    /\ offeredCount < MaxOffered
    /\ earlierIndexes' = earlierIndexes \cup indexes
    /\ allocNodes' = {}
    /\ acceptedOfRequestedFlavor' = 0
    /\ rejectedWithClashingParentHost' = 0
    /\ wasRetiredJustNow' = 0
    /\ indexes' = {}
    /\ finalList' = [called |-> FALSE, nodes |-> {}, surplusNodes |-> {}]
    /\ UNCHANGED <<allocRequest, highestIndex, offeredCount>>

\* NodeSpec.CountNodeSpec
fulfilledBy(count) == count >= allocRequest.count
saturatedBy(count) == fulfilledBy(count)
surplusGiven(count) == count - allocRequest.count

saturated == saturatedBy(acceptedOfRequestedFlavor)
fullfilled == fulfilledBy(acceptedOfRequestedFlavor)

\* the test of lines 241-242
SameParentHostname(acceptedNode, offered) ==
    /\ acceptedNode.parent # NoParent
    /\ offered.parent # NoParent
    /\ acceptedNode.parent = offered.parent

offeredNodeHasParentHostnameAlreadyAccepted(acceptedNodes, offered) ==
    \E acceptedNode \in acceptedNodes : SameParentHostname(acceptedNode, offered)

hasCompatibleFlavor(node) == node.compatible

acceptToRetire(node, sameGroup) ==
    /\ node.state = "active"
    /\ sameGroup
    /\ \/ allocRequest.type = "content"
       \/ allocRequest.type = "container" /\ ~hasCompatibleFlavor(node)

\* Math.max(highestIndex.get(), index) of line 299, and a counter left as it is
RaisedIndexNever(highest, index) == highest
RaisedIndex(highest, index) == IF index > highest THEN index ELSE highest

\* the node as acceptNode adds it: its membership is retired or, for a node that
\* is not active, not retired
acceptNode(node, wantToRetire) ==
    LET added ==
            IF ~wantToRetire
            THEN IF node.state # "active" THEN [node EXCEPT !.retired = FALSE] ELSE node
            ELSE [node EXCEPT !.retired = TRUE]
    IN  /\ acceptedOfRequestedFlavor' =
               acceptedOfRequestedFlavor + (IF wantToRetire THEN 0 ELSE 1)
        /\ wasRetiredJustNow' = wasRetiredJustNow + (IF wantToRetire THEN 1 ELSE 0)
        /\ indexes' = indexes \cup {added.index}
        /\ highestIndex' = RaisedIndex(highestIndex, added.index)
        /\ allocNodes' = allocNodes \cup {added}

\* offer(offeredNodes, canChangeGroup) for one offered node: the body of the loop.
\* ours: the node is allocated to this application and cluster and is not removable;
\* sameGroup: its group is the group of the cluster; retiring: its flavor is
\* retired or its status wants it retired
offer(offered, allocated, ours, sameGroup, retiring, canChangeGroup) ==
    /\ allocRequest # NoRequest
    /\ ~finalList.called
    /\ offeredCount < MaxOffered
    /\ offeredCount' = offeredCount + 1
    /\ IF allocated
       THEN IF \/ ~ours
               \/ (~canChangeGroup \/ saturated) /\ ~sameGroup
               \/ offered.index \in indexes
            THEN UNCHANGED <<allocNodes, acceptedOfRequestedFlavor, wasRetiredJustNow,
                             indexes, highestIndex, rejectedWithClashingParentHost>>
            ELSE LET wantToRetireNode ==
                         \/ offeredNodeHasParentHostnameAlreadyAccepted(allocNodes, offered)
                         \/ ~hasCompatibleFlavor(offered)
                         \/ retiring
                 IN  IF \/ ~saturated /\ hasCompatibleFlavor(offered)
                        \/ acceptToRetire(offered, sameGroup)
                     THEN /\ acceptNode(offered, wantToRetireNode)
                          /\ UNCHANGED rejectedWithClashingParentHost
                     ELSE UNCHANGED <<allocNodes, acceptedOfRequestedFlavor,
                                      wasRetiredJustNow, indexes, highestIndex,
                                      rejectedWithClashingParentHost>>
       ELSE IF ~saturated /\ hasCompatibleFlavor(offered)
            THEN IF offeredNodeHasParentHostnameAlreadyAccepted(allocNodes, offered)
                 THEN /\ rejectedWithClashingParentHost' =
                             rejectedWithClashingParentHost + 1
                      /\ UNCHANGED <<allocNodes, acceptedOfRequestedFlavor,
                                     wasRetiredJustNow, indexes, highestIndex>>
                 ELSE IF retiring
                      THEN UNCHANGED <<allocNodes, acceptedOfRequestedFlavor,
                                       wasRetiredJustNow, indexes, highestIndex,
                                       rejectedWithClashingParentHost>>
                      ELSE /\ acceptNode([offered EXCEPT !.index = highestIndex + 1],
                                         FALSE)
                           /\ UNCHANGED rejectedWithClashingParentHost
            ELSE UNCHANGED <<allocNodes, acceptedOfRequestedFlavor, wasRetiredJustNow,
                             indexes, highestIndex, rejectedWithClashingParentHost>>
    /\ UNCHANGED <<allocRequest, finalList, earlierIndexes>>

\* the nodes sorted by the index of their membership
RECURSIVE byIncreasingIndex(_)
byIncreasingIndex(nodeSet) ==
    IF nodeSet = {} THEN << >>
    ELSE LET first == CHOOSE n \in nodeSet : \A m \in nodeSet : n.index <= m.index
         IN  <<first>> \o byIncreasingIndex(nodeSet \ {first})

RECURSIVE byDecreasingIndex(_)
byDecreasingIndex(nodeSet) ==
    IF nodeSet = {} THEN << >>
    ELSE LET first == CHOOSE n \in nodeSet : \A m \in nodeSet : n.index >= m.index
         IN  <<first>> \o byDecreasingIndex(nodeSet \ {first})

\* the loop of lines 342-348: the nodes it retires
RECURSIVE RetireSurplus(_, _)
RetireSurplus(sorted, surplus) ==
    IF sorted = << >> THEN {}
    ELSE LET node == Head(sorted)
         IN  IF ~node.retired /\ node.state = "active"
             THEN IF surplus - 1 = 0 THEN {node}
                  ELSE {node} \cup RetireSurplus(Tail(sorted), surplus - 1)
             ELSE RetireSurplus(Tail(sorted), surplus)

\* the test of line 352, and one that takes no node out of retirement
UnretirableNever(node) == FALSE
Unretirable(node) == node.retired /\ hasCompatibleFlavor(node)

\* the loop of lines 351-356: the nodes it takes out of retirement
RECURSIVE UnretireDeficit(_, _)
UnretireDeficit(sorted, surplus) ==
    IF sorted = << >> THEN {}
    ELSE LET node == Head(sorted)
         IN  IF Unretirable(node)
             THEN IF surplus + 1 = 0 THEN {node}
                  ELSE {node} \cup UnretireDeficit(Tail(sorted), surplus + 1)
             ELSE UnretireDeficit(Tail(sorted), surplus)

finalNodes ==
    /\ allocRequest # NoRequest
    /\ ~finalList.called
    /\ LET currentRetired == Cardinality({n \in allocNodes : n.retired})
           surplus == surplusGiven(Cardinality(allocNodes)) - currentRetired
           retiredNow == IF surplus > 0
                         THEN RetireSurplus(byDecreasingIndex(allocNodes), surplus)
                         ELSE {}
           unretiredNow == IF surplus < 0
                           THEN UnretireDeficit(byIncreasingIndex(allocNodes), surplus)
                           ELSE {}
           updated == (allocNodes \ (retiredNow \cup unretiredNow))
                          \cup {[n EXCEPT !.retired = TRUE] : n \in retiredNow}
                          \cup {[n EXCEPT !.retired = FALSE] : n \in unretiredNow}
       IN  /\ allocNodes' = updated
           /\ finalList' = [called |-> TRUE, nodes |-> updated,
                            surplusNodes |-> retiredNow]
    /\ UNCHANGED <<allocRequest, acceptedOfRequestedFlavor, rejectedWithClashingParentHost,
                   wasRetiredJustNow, indexes, highestIndex, offeredCount, earlierIndexes>>

\* the nodes that are offered. A node is told apart by the index of its
\* membership, which no two accepted nodes share (line 209); a node without
\* an allocation has no index yet
AllocatedNodes ==
    [state : {"active", "inactive"}, retired : BOOLEAN, index : OldIndexes,
     parent : ParentHosts \cup {NoParent}, compatible : BOOLEAN]
ReadyNodes ==
    [state : {"ready"}, retired : {FALSE}, index : {-1},
     parent : ParentHosts \cup {NoParent}, compatible : BOOLEAN]
\* <<sameGroup, canChangeGroup>> of an offer
GroupCases == {<<TRUE, FALSE>>, <<FALSE, TRUE>>, <<FALSE, FALSE>>}

\* an active node of another application or cluster, or one that is removable
ForeignNode ==
    [state |-> "active", retired |-> FALSE, index |-> 0, parent |-> NoParent,
     compatible |-> TRUE]

AllocNext ==
    \/ (\E type \in ClusterTypes, count \in 1..MaxRequested : NodeAllocation(type, count))
       /\ AllocOnly
    \/ (\E offered \in AllocatedNodes, group \in GroupCases, retiring \in BOOLEAN :
           offer(offered, TRUE, TRUE, group[1], retiring, group[2]))
       /\ AllocOnly
    \/ (\E offered \in ReadyNodes, retiring \in BOOLEAN :
           offer(offered, FALSE, FALSE, FALSE, retiring, FALSE))
       /\ AllocOnly
    \/ offer(ForeignNode, TRUE, FALSE, TRUE, FALSE, TRUE) /\ AllocOnly
    \/ finalNodes /\ AllocOnly

\* the groups of a cluster, allocated one after the other
AllocGroups == NodeAllocationOfNextGroup /\ AllocOnly

(***************************************************************************)
(* Part VII NodePrioritizer: spare hosts, headroom hosts, replacement and  *)
(*          the candidate nodes.                                           *)
(***************************************************************************)
\* the docker hosts of the node repository; their free capacity differs, so
\* that the sorts by capacity have no ties
HostNames == {"h1", "h2", "h3"}
FreeCapacity == [h \in HostNames |-> CASE h = "h1" -> 1 [] h = "h2" -> 2 [] OTHER -> 3]
FakeName == [h \in HostNames |->
                CASE h = "h1" -> "fake-h1" [] h = "h2" -> "fake-h2" [] OTHER -> "fake-h3"]
\* room: whether the host has capacity for the flavor now, only when its retired
\* and inactive nodes are gone, or not at all
HostNodes(names) ==
    [hostname : names, type : {"host"}, state : {"active", "inactive"},
     owner : {"none"}, cluster : {"none"}, parent : {"none"},
     freeIPs : 0..1, room : {"now", "whenGone", "none"}]
\* host nodes that differ in state only
PlainHostNodes(names) ==
    {h \in HostNodes(names) : h.freeIPs = 1 /\ h.room = "now"}
\* one host node for every name
HostSets(nodeSet, names) ==
    {{f[name] : name \in names} :
        f \in {g \in [names -> nodeSet] : \A name \in names : g[name].hostname = name}}

\* the tenant nodes: a node of the cluster (active or failed), a ready node
\* without allocation, a node of another application
TenantKinds ==
    {[state |-> "active", owner |-> "app", cluster |-> "ours"],
     [state |-> "failed", owner |-> "app", cluster |-> "ours"],
     [state |-> "ready", owner |-> "none", cluster |-> "none"],
     [state |-> "active", owner |-> "other", cluster |-> "other"]}
TenantNode(name, kind, parent) ==
    [hostname |-> name, type |-> "tenant", state |-> kind.state, owner |-> kind.owner,
     cluster |-> kind.cluster, parent |-> parent]

\* requestedNodes: a CountNodeSpec of a count and a flavor, which asks for tenant
\* nodes, or a spec by node type, here of the hosts
PrioRequests(counts) ==
    [count : counts, isCount : {TRUE}, type : {"tenant"}, idealHeadroom : 0..2,
     docker : BOOLEAN]
TypeRequest ==
    [count |-> 0, isCount |-> FALSE, type |-> "host", idealHeadroom |-> 0, docker |-> FALSE]

NoPrio ==
    [constructed |-> FALSE, allNodes |-> {}, request |-> TypeRequest, spareHosts |-> {},
     headroomHosts |-> [ok |-> {}, violated |-> {}], nofNodesInCluster |-> 0,
     nofFailedNodes |-> 0, isAllocatingForReplacement |-> FALSE, isDocker |-> FALSE]

PrioInit ==
    /\ prio = NoPrio
    /\ prioNodes = {}

\* hosts that can be spare or headroom hosts (lines 91-93 and 105-107)
UsableHosts(nodeSet) ==
    {n \in nodeSet : n.type = "host" /\ n.state = "active" /\ n.freeIPs > 0}

\* sorted(capacity::compareWithoutInactive).limit(spares)
findSpareHosts(nodeSet, spares) ==
    {h \in UsableHosts(nodeSet) :
        Cardinality({g \in UsableHosts(nodeSet) :
                        FreeCapacity[g.hostname] < FreeCapacity[h.hostname]}) < spares}

\* the hosts by decreasing free capacity
RECURSIVE byDecreasingCapacity(_)
byDecreasingCapacity(hosts) ==
    IF hosts = {} THEN << >>
    ELSE LET first == CHOOSE h \in hosts :
                          \A g \in hosts : FreeCapacity[h.hostname] >= FreeCapacity[g.hostname]
         IN  <<first>> \o byDecreasingCapacity(hosts \ {first})

\* the loop of lines 114-126: tempHeadroom and notEnoughCapacity
RECURSIVE HeadroomLoop(_, _, _, _)
HeadroomLoop(sorted, idealHeadroom, tempHeadroom, notEnoughCapacity) ==
    IF sorted = << >>
    THEN [tempHeadroom |-> tempHeadroom, notEnoughCapacity |-> notEnoughCapacity]
    ELSE LET host == Head(sorted)
             fits == host.room # "none"
             temp == IF fits THEN tempHeadroom \cup {host.hostname} ELSE tempHeadroom
             notEnough == IF fits THEN notEnoughCapacity
                          ELSE notEnoughCapacity \cup {host.hostname}
         IN  IF Cardinality(temp) = idealHeadroom
             THEN \* continue: the loop goes on with the next host
                  HeadroomLoop(Tail(sorted), idealHeadroom, temp, notEnough)
             ELSE HeadroomLoop(Tail(sorted), idealHeadroom, temp, notEnough)

\* for the one flavor of the request, if its ideal headroom is positive
findHeadroomHosts(nodeSet, spareNodes, idealHeadroom) ==
    IF idealHeadroom > 0
    THEN LET hostsSortedOnLeastCapacity ==
                 byDecreasingCapacity(UsableHosts(nodeSet) \ spareNodes)
             loop == HeadroomLoop(hostsSortedOnLeastCapacity, idealHeadroom, {}, {})
             missing == idealHeadroom - Cardinality(loop.tempHeadroom)
             violations ==
                 IF missing > 0
                 THEN {h \in loop.notEnoughCapacity :
                          Cardinality({g \in loop.notEnoughCapacity :
                                          FreeCapacity[g] > FreeCapacity[h]}) < missing}
                 ELSE {}
         IN  [ok |-> loop.tempHeadroom, violated |-> violations]
    ELSE [ok |-> {}, violated |-> {}]

InCluster(node) ==
    node.type = "tenant" /\ node.owner = "app" /\ node.cluster = "ours"

\* the test of isReplacement, and one that forgets the failed nodes
isReplacementOfAll(nofNodesInCluster, nodeFailedNodes, request) ==
    IF nodeFailedNodes = 0 THEN FALSE
    ELSE (IF request.isCount THEN request.count ELSE 0) > nofNodesInCluster
isReplacement(nofNodesInCluster, nodeFailedNodes, request) ==
    IF nodeFailedNodes = 0 THEN FALSE
    ELSE (IF request.isCount THEN request.count ELSE 0)
             > nofNodesInCluster - nodeFailedNodes

NodePrioritizer(allNodes, request, spares) ==
    /\ ~prio.constructed
    /\ LET spareHosts == findSpareHosts(allNodes, spares)
           nofFailedNodes ==
               Cardinality({n \in allNodes : InCluster(n) /\ n.state = "failed"})
           nofNodesInCluster == Cardinality({n \in allNodes : InCluster(n)})
       IN  prio' = [constructed |-> TRUE,
                    allNodes |-> allNodes,
                    request |-> request,
                    spareHosts |-> {h.hostname : h \in spareHosts},
                    headroomHosts |->
                        findHeadroomHosts(allNodes, spareHosts, request.idealHeadroom),
                    nofNodesInCluster |-> nofNodesInCluster,
                    nofFailedNodes |-> nofFailedNodes,
                    isAllocatingForReplacement |->
                        isReplacement(nofNodesInCluster, nofFailedNodes, request),
                    isDocker |-> request.isCount /\ request.docker]
    /\ UNCHANGED prioNodes

\* a node of the candidate list; the parent of a node is looked up in allNodes
toNodePriority(node, isSurplusNode, isNewNode) ==
    LET hasParent == \E h \in prio.allNodes : h.type = "host" /\ h.hostname = node.parent
    IN  [node |-> node.hostname, parent |-> node.parent, isSurplusNode |-> isSurplusNode,
         isNewNode |-> isNewNode,
         violatesSpares |-> hasParent /\ node.parent \in prio.spareHosts,
         violatesHeadroom |-> hasParent /\ node.parent \in prio.headroomHosts.violated]

\* the filter of lines 155, 187 and 211, and none
TakesAny(nodePri) == TRUE
Takes(nodePri) == ~nodePri.violatesSpares \/ prio.isAllocatingForReplacement

\* nodes.put(node, nodePri): the map has one priority for a node
PutAll(priorities) ==
    {p \in prioNodes : \A q \in priorities : q.node # p.node} \cup priorities

addSurplusNodes(surplusNodes) ==
    /\ prio.constructed
    /\ prioNodes' = PutAll({p \in {toNodePriority(n, TRUE, FALSE) : n \in surplusNodes} :
                               Takes(p)})
    /\ UNCHANGED prio

\* resolvable: the hosts whose free ip address has a host name
addNewDockerNodes(resolvable) ==
    /\ prio.constructed
    /\ prioNodes' =
           IF ~prio.isDocker THEN prioNodes
           ELSE LET hosts ==
                        {h \in prio.allNodes :
                            /\ h.type = "host"
                            /\ ~\E child \in prio.allNodes :
                                   /\ InCluster(child)
                                   /\ child.parent = h.hostname
                            /\ h.room = "now"
                            /\ h.freeIPs > 0
                            /\ h.hostname \in resolvable}
                    newNodes ==
                        {TenantNode(FakeName[h.hostname],
                                    [state |-> "new", owner |-> "none", cluster |-> "none"],
                                    h.hostname) : h \in hosts}
                IN  PutAll({p \in {toNodePriority(n, FALSE, TRUE) : n \in newNodes} :
                               Takes(p)})
    /\ UNCHANGED prio

addApplicationNodes ==
    /\ prio.constructed
    /\ prioNodes' =
           PutAll({toNodePriority(n, FALSE, FALSE) :
                      n \in {m \in prio.allNodes :
                                /\ m.type = prio.request.type
                                /\ m.state \in {"active", "inactive", "reserved"}
                                /\ m.owner = "app"}})
    /\ UNCHANGED prio

addReadyNodes ==
    /\ prio.constructed
    /\ prioNodes' =
           PutAll({p \in {toNodePriority(n, FALSE, FALSE) :
                             n \in {m \in prio.allNodes :
                                       m.type = prio.request.type /\ m.state = "ready"}} :
                      Takes(p)})
    /\ UNCHANGED prio

\* the calls that fill the candidate list
PrioAdding ==
    \/ (\E surplusNodes \in SUBSET {n \in prio.allNodes : InCluster(n) /\ n.state = "active"} :
           addSurplusNodes(surplusNodes)) /\ PrioOnly
    \/ (\E resolvable \in {{}, HostNames} : addNewDockerNodes(resolvable)) /\ PrioOnly
    \/ addApplicationNodes /\ PrioOnly
    \/ addReadyNodes /\ PrioOnly

\* a cluster of five nodes of which two have failed, a ready node on each of
\* two hosts, and a request for four nodes
ExampleNodes ==
    {TenantNode("t1", [state |-> "active", owner |-> "app", cluster |-> "ours"], "none"),
     TenantNode("t2", [state |-> "active", owner |-> "app", cluster |-> "ours"], "none"),
     TenantNode("t3", [state |-> "active", owner |-> "app", cluster |-> "ours"], "none"),
     TenantNode("t4", [state |-> "failed", owner |-> "app", cluster |-> "ours"], "none"),
     TenantNode("t5", [state |-> "failed", owner |-> "app", cluster |-> "ours"], "none"),
     TenantNode("t6", [state |-> "ready", owner |-> "none", cluster |-> "none"], "h1"),
     TenantNode("t7", [state |-> "ready", owner |-> "none", cluster |-> "none"], "h2")}
ExampleRequest ==
    [count |-> 4, isCount |-> TRUE, type |-> "tenant", idealHeadroom |-> 0, docker |-> TRUE]

\* a prioritizer for two hosts and two tenant nodes, or for the example
PrioSparesNext ==
    \/ (/\ ~prio.constructed
        /\ \E hosts \in HostSets(PlainHostNodes({"h1", "h2"}), {"h1", "h2"}) :
               NodePrioritizer(hosts \cup ExampleNodes, ExampleRequest, 1)) /\ PrioOnly
    \/ (/\ ~prio.constructed
        /\ \E hosts \in HostSets(PlainHostNodes({"h1", "h2"}), {"h1", "h2"}),
           kind1, kind2 \in TenantKinds, parent1, parent2 \in {"h1", "h2"},
           request \in {r \in PrioRequests(1..MaxRequested) : r.idealHeadroom = 0}
                           \cup {TypeRequest},
           spares \in 0..1 :
               NodePrioritizer(hosts \cup {TenantNode("t1", kind1, parent1),
                                           TenantNode("t2", kind2, parent2)},
                               request, spares)) /\ PrioOnly
    \/ PrioAdding

\* a prioritizer for three hosts and no tenant nodes
PrioHeadroomNext ==
    (/\ ~prio.constructed
     /\ \E hosts \in HostSets(HostNodes(HostNames), HostNames),
            request \in {r \in PrioRequests({1}) : ~r.docker}, spares \in 0..1 :
            NodePrioritizer(hosts, request, spares)) /\ PrioOnly

(***************************************************************************)
(* Part VIII NodeRepositoryProvisioner.prepare: the checks of the request  *)
(*           and what is handed to the preparer.                           *)
(***************************************************************************)
\* requestedCapacity.nodeCount(), wantedGroups and what the capacity policy decides
NodeCounts == 0..MaxNodeCount
GroupCounts == 0..MaxGroups
NodeTypes == {"tenant", "host"}

NoPrepare ==
    [called |-> FALSE, group |-> FALSE, nodeCount |-> 0, wantedGroups |-> 0,
     type |-> "tenant", error |-> "none"]
NothingPrepared == [type |-> "none", count |-> 0, groups |-> 0]

PrepareInit ==
    /\ prepareCall = NoPrepare
    /\ preparerCalls = 0
    /\ prepared = NothingPrepared

\* the exception of lines 69-72, if any (the remainder of Java throws for a
\* divisor of 0); a check of the group alone
rejectionGroupOnly(group, nodeCount, wantedGroups) ==
    IF group THEN "IllegalArgumentException" ELSE "none"
rejection(group, nodeCount, wantedGroups) ==
    IF group THEN "IllegalArgumentException"
    ELSE IF nodeCount > 0
         THEN IF wantedGroups = 0 THEN "ArithmeticException"
              ELSE IF nodeCount % wantedGroups # 0 THEN "IllegalArgumentException"
              ELSE "none"
         ELSE "none"

\* lines 79-91: the node spec and the group count for the preparer; decided is
\* what capacityPolicies.decideSize returns
requestedNodes(type, decided) ==
    IF type = "tenant" THEN [type |-> "tenant", count |-> decided]
    ELSE [type |-> type, count |-> 0]
effectiveGroups(type, decided, wantedGroups) ==
    IF type = "tenant"
    THEN (IF wantedGroups > decided THEN decided ELSE wantedGroups)
    ELSE 1

prepare(group, nodeCount, wantedGroups, type, decided) ==
    LET error == rejection(group, nodeCount, wantedGroups)
    IN  /\ prepareCall' = [called |-> TRUE, group |-> group, nodeCount |-> nodeCount,
                           wantedGroups |-> wantedGroups, type |-> type, error |-> error]
        /\ IF error # "none"
           THEN UNCHANGED <<preparerCalls, prepared>>
           ELSE /\ preparerCalls < MaxPrepares
                /\ preparerCalls' = preparerCalls + 1
                /\ prepared' = [type |-> requestedNodes(type, decided).type,
                                count |-> requestedNodes(type, decided).count,
                                groups |-> effectiveGroups(type, decided, wantedGroups)]

PrepareNext ==
    (\E group \in BOOLEAN, nodeCount \in NodeCounts, wantedGroups \in GroupCounts,
        type \in NodeTypes, decided \in NodeCounts :
        prepare(group, nodeCount, wantedGroups, type, decided)) /\ PrepareOnly

(***************************************************************************)
(* Part IX  Proton configuration: the builders of the test fixture, the    *)
(*          configuration context, the bootstrap config manager, the       *)
(*          config fetcher and the configurer.                             *)
(***************************************************************************)
ConfigIds == {"foo", "search"}
DocTypeNames == {"_alwaysthere_", "typea", "foobar"}
\* the rpc port of a new ProtonConfigBuilder, and the one the tests set
DefaultRpcport == "default"
ChangedRpcport == "9010"

\* a config key: the config type and the config id
ConfigKey(type, configId) == [type |-> type, configId |-> configId]

\* BootstrapConfigManager::createConfigKeySet, a key set of two keys
createConfigKeySetOfTwo(configId) ==
    {ConfigKey("proton", configId), ConfigKey("documenttypes", configId)}
createConfigKeySet(configId) ==
    {ConfigKey("proton", configId), ConfigKey("documenttypes", configId),
     ConfigKey("filedistributorrpc", configId)}

\* the values of the builders: the proton config (rpcport, documentdb list) and
\* the documenttypes config; addDocType and removeDocType change both lists
\* together, so one set of names stands for both
ConfigTestFixture == [rpcport |-> DefaultRpcport, docTypes |-> {"_alwaysthere_"}]

NoConfig == [generation |-> -1, rpcport |-> "none", docTypes |-> {}]
NoSnapshot == [bootstrap |-> NoConfig, dbConfigs |-> {}]

ConfigInit ==
    /\ cfgBuilders = ConfigTestFixture
    \* the context serves the builders as they are when the retriever subscribes
    /\ cfgContext = [generation |-> 0, rpcport |-> DefaultRpcport,
                     docTypes |-> {"_alwaysthere_"}]
    /\ cfgManager = [configId |-> "search", keySet |-> {}, config |-> NoConfig,
                     last |-> "none"]
    /\ cfgFetcher = [pc |-> "created", bootstrap |-> NoConfig]
    /\ cfgOwner = [configured |-> FALSE, snapshot |-> NoSnapshot]

\* ---- the fixture
SetRpcport(port) ==
    /\ cfgBuilders' = [cfgBuilders EXCEPT !.rpcport = port]
    /\ UNCHANGED <<cfgContext, cfgManager, cfgFetcher, cfgOwner>>

addDocType(name) ==
    /\ name \notin cfgBuilders.docTypes
    /\ cfgBuilders' = [cfgBuilders EXCEPT !.docTypes = @ \cup {name}]
    /\ UNCHANGED <<cfgContext, cfgManager, cfgFetcher, cfgOwner>>

removeDocType(name) ==
    /\ cfgBuilders' = [cfgBuilders EXCEPT !.docTypes = @ \ {name}]
    /\ UNCHANGED <<cfgContext, cfgManager, cfgFetcher, cfgOwner>>

\* context->reload(): a new generation with the values the builders have now
reload ==
    /\ cfgContext.generation < MaxReloads
    /\ cfgContext' = [generation |-> cfgContext.generation + 1,
                      rpcport |-> cfgBuilders.rpcport,
                      docTypes |-> cfgBuilders.docTypes]
    /\ UNCHANGED <<cfgBuilders, cfgManager, cfgFetcher, cfgOwner>>

\* ---- the bootstrap config manager
BootstrapConfigManager(configId) ==
    /\ cfgManager.keySet = {}
    /\ cfgManager' = [cfgManager EXCEPT !.configId = configId,
                                        !.keySet = createConfigKeySet(configId),
                                        !.last = "created"]
    /\ UNCHANGED <<cfgBuilders, cfgContext, cfgFetcher, cfgOwner>>

\* what the retriever hands out for a generation: the configuration of the
\* context; the values the builders have at that moment
BootstrapOfBuilders(gen) ==
    [generation |-> gen, rpcport |-> cfgBuilders.rpcport,
     docTypes |-> cfgBuilders.docTypes]
getBootstrapConfigs(gen) ==
    [generation |-> gen, rpcport |-> cfgContext.rpcport,
     docTypes |-> cfgContext.docTypes]

\* update(retriever.getBootstrapConfigs()); last tells whether the retriever had
\* a new generation for it
ManagerUpdate ==
    /\ cfgManager.keySet # {}
    /\ cfgManager' =
           [cfgManager EXCEPT
               !.config = IF cfgContext.generation > cfgManager.config.generation
                          THEN getBootstrapConfigs(cfgContext.generation)
                          ELSE @,
               !.last = IF cfgContext.generation > cfgManager.config.generation
                        THEN "update" ELSE "updateWithoutReload"]
    /\ UNCHANGED <<cfgBuilders, cfgContext, cfgFetcher, cfgOwner>>

\* ---- the config fetcher and the configurer
\* the per-type configurations of a snapshot: those of the document types of
\* its bootstrap configuration; those of the document types the context serves
dbConfigsOfContext(bootstrap) == cfgContext.docTypes
dbConfigsOf(bootstrap) == bootstrap.docTypes

\* the fetcher takes the bootstrap configuration of a new generation
FetchBootstrap ==
    /\ cfgFetcher.pc \in {"created", "polling"}
    /\ cfgContext.generation > cfgFetcher.bootstrap.generation
    /\ cfgFetcher' = [pc |-> IF cfgFetcher.pc = "created" THEN "starting" ELSE "fetched",
                      bootstrap |-> getBootstrapConfigs(cfgContext.generation)]
    /\ UNCHANGED <<cfgBuilders, cfgContext, cfgManager, cfgOwner>>

\* ProtonConfigOwner::reconfigure with the snapshot the fetcher has assembled
reconfigure ==
    /\ cfgFetcher.pc \in {"starting", "fetched"}
    /\ cfgOwner' = [configured |-> TRUE,
                    snapshot |-> [bootstrap |-> cfgFetcher.bootstrap,
                                  dbConfigs |-> dbConfigsOf(cfgFetcher.bootstrap)]]
    /\ cfgFetcher' = [cfgFetcher EXCEPT !.pc = "polling"]
    /\ UNCHANGED <<cfgBuilders, cfgContext, cfgManager>>

\* f2._configured = false
ResetConfigured ==
    /\ cfgOwner.configured
    /\ cfgOwner' = [cfgOwner EXCEPT !.configured = FALSE]
    /\ UNCHANGED <<cfgBuilders, cfgContext, cfgManager, cfgFetcher>>

FetcherClose ==
    /\ cfgFetcher.pc = "polling"
    /\ cfgFetcher' = [cfgFetcher EXCEPT !.pc = "closed"]
    /\ UNCHANGED <<cfgBuilders, cfgContext, cfgManager, cfgOwner>>

FixtureNext ==
    \/ (\E port \in {DefaultRpcport, ChangedRpcport} : SetRpcport(port)) /\ ConfigOnly
    \/ (\E name \in DocTypeNames \ {"_alwaysthere_"} : addDocType(name)) /\ ConfigOnly
    \/ (\E name \in DocTypeNames \ {"_alwaysthere_"} : removeDocType(name)) /\ ConfigOnly
    \/ reload /\ ConfigOnly

ConfigManagerNext ==
    \/ FixtureNext
    \/ (\E configId \in ConfigIds : BootstrapConfigManager(configId)) /\ ConfigOnly
    \/ ManagerUpdate /\ ConfigOnly

ConfigFetcherNext ==
    \/ FixtureNext
    \/ FetchBootstrap /\ ConfigOnly
    \/ reconfigure /\ ConfigOnly
    \/ ResetConfigured /\ ConfigOnly
    \/ FetcherClose /\ ConfigOnly

(***************************************************************************)
(* Part X   FastOS_ThreadPool as the thread test uses it: a pool with a    *)
(*          maximum number of threads, jobs run in threads of the pool.    *)
(***************************************************************************)
Jobs == 1..(MaxPoolThreads + 1)
NoPool == [maxThreads |-> 0, numActive |-> 0, numFree |-> 0, closed |-> FALSE]
NoNewThread == [made |-> FALSE, running |-> 0, result |-> "none"]

ThreadInit ==
    /\ pool = NoPool
    /\ jobs = [j \in Jobs |-> "unused"]
    /\ newThread = NoNewThread

\* new FastOS_ThreadPool(stackSize, maxThreads)
FastOS_ThreadPool(maxThreads) ==
    /\ pool = NoPool
    /\ pool' = [maxThreads |-> maxThreads, numActive |-> 0, numFree |-> 0,
                closed |-> FALSE]
    /\ UNCHANGED <<jobs, newThread>>

\* whether the pool has a thread for a request: a free one, or a new one if
\* the maximum is not reached; a pool that always has
HasThreadAlways == TRUE
HasThread == pool.numFree > 0 \/ pool.numActive + pool.numFree < pool.maxThreads

\* pool->NewThread(this, &jobs[j]): returns at once, with a thread that runs
\* the job or with NULL
NewThread(j) ==
    /\ pool # NoPool
    /\ ~pool.closed
    /\ jobs[j] # "running"
    /\ newThread' = [made |-> TRUE, running |-> pool.numActive,
                     result |-> IF HasThread THEN "thread" ELSE "NULL"]
    /\ IF HasThread
       THEN /\ pool' = [pool EXCEPT !.numActive = @ + 1,
                                    !.numFree = IF @ > 0 THEN @ - 1 ELSE 0]
            /\ jobs' = [jobs EXCEPT ![j] = "running"]
       ELSE UNCHANGED <<pool, jobs>>

\* the job of a thread ends and the thread becomes a free thread of the pool
JobDone(j) ==
    /\ jobs[j] = "running"
    /\ jobs' = [jobs EXCEPT ![j] = "finished"]
    /\ pool' = [pool EXCEPT !.numActive = @ - 1, !.numFree = @ + 1]
    /\ UNCHANGED newThread

\* pool->Close(), which returns when no thread is running
Close ==
    /\ pool # NoPool
    /\ ~pool.closed
    /\ pool.numActive = 0
    /\ pool' = [pool EXCEPT !.closed = TRUE, !.numFree = 0]
    /\ UNCHANGED <<jobs, newThread>>

ThreadNext ==
    \/ (\E maxThreads \in 1..MaxPoolThreads : FastOS_ThreadPool(maxThreads)) /\ ThreadOnly
    \/ (\E j \in Jobs : NewThread(j)) /\ ThreadOnly
    \/ (\E j \in Jobs : JobDone(j)) /\ ThreadOnly
    \/ Close /\ ThreadOnly

(***************************************************************************)
(* Part XI  CommandLineOptions of vespa-get: the parsing of the command    *)
(*          line.                                                          *)
(***************************************************************************)
\* the arguments left over after the options: none, a single empty string, or
\* document ids
ArgLists == {<< >>, <<"">>, <<"id:1">>, <<"id:1", "id:2">>}
\* the command line: which options it has; numbers tells whether the values of
\* --trace, --priority and --timeout are numbers and the priority a known one
CommandLines ==
    [parsable : BOOLEAN, printids : BOOLEAN, headersonly : BOOLEAN,
     fieldset : {"", "[id]"}, cluster : {"", "c"}, route : {"", "r"},
     numbers : {"ok", "noNumber", "noPriority"}, trace : {0, 10}, args : ArgLists]

NoCommandLine ==
    [parsable |-> TRUE, printids |-> FALSE, headersonly |-> FALSE, fieldset |-> "",
     cluster |-> "", route |-> "", numbers |-> "ok", trace |-> 0, args |-> << >>]

CliInit ==
    /\ cli = [pc |-> "idle", line |-> NoCommandLine, documentIds |-> "none",
              error |-> "none", fieldSet |-> "", route |-> ""]
    /\ stdinRead = 0

\* parseCommandLineArguments(args) is called
ParseCall(line) ==
    /\ cli.pc = "idle"
    /\ cli' = [cli EXCEPT !.pc = "called", !.line = line]
    /\ UNCHANGED stdinRead

\* lines 154-170: the parser and the values of the options
ParseOptions ==
    /\ cli.pc = "called"
    /\ cli' = IF ~cli.line.parsable \/ cli.line.numbers = "noNumber"
              THEN [cli EXCEPT !.pc = "failed",
                               !.error = "IllegalArgumentException: ParseException"]
              ELSE IF cli.line.numbers = "noPriority"
              THEN [cli EXCEPT !.pc = "failed",
                               !.error = "IllegalArgumentException: Invalid priority"]
              ELSE [cli EXCEPT !.pc = "options"]
    /\ UNCHANGED stdinRead

\* line 171: a Scanner of standard input, from which nothing is read yet, or an
\* iterator over the ids of the argument list
getDocumentIds ==
    /\ cli.pc = "options"
    /\ cli' = [cli EXCEPT
                  !.pc = "documentIds",
                  !.documentIds =
                      IF \/ Len(cli.line.args) = 0
                         \/ Len(cli.line.args) = 1 /\ cli.line.args[1] = ""
                      THEN "Scanner(stdIn)" ELSE "args.iterator()"]
    /\ UNCHANGED stdinRead

\* the test of line 173, and no test
MutuallyExclusiveNever(printIdsOnly, headersOnly) == FALSE
MutuallyExclusive(printIdsOnly, headersOnly) == printIdsOnly /\ headersOnly

\* lines 173-220
Validate ==
    /\ cli.pc = "documentIds"
    /\ LET printIdsOnly == cli.line.printids
           headersOnly == cli.line.headersonly
           error ==
               IF MutuallyExclusive(printIdsOnly, headersOnly)
               THEN "IllegalArgumentException: Print ids and headers only"
               ELSE IF (printIdsOnly \/ headersOnly) /\ cli.line.fieldset # ""
               THEN "IllegalArgumentException: Field set option"
               ELSE IF cli.line.cluster # "" /\ cli.line.route # ""
               THEN "IllegalArgumentException: Cluster and route"
               ELSE IF cli.line.trace < 0 \/ cli.line.trace > 9
               THEN "IllegalArgumentException: Invalid tracelevel"
               ELSE "none"
       IN  cli' = IF error # "none"
                  THEN [cli EXCEPT !.pc = "failed", !.error = error]
                  ELSE [cli EXCEPT
                           !.pc = "returned",
                           !.fieldSet = IF printIdsOnly THEN "[id]"
                                        ELSE IF headersOnly THEN "[header]"
                                        ELSE IF cli.line.fieldset = "" THEN "[all]"
                                        ELSE cli.line.fieldset,
                           !.route = IF cli.line.route = "" /\ cli.line.cluster = ""
                                     THEN "default" ELSE cli.line.route]
    /\ UNCHANGED stdinRead

\* the caller takes a document id from the iterator of the parameters, which
\* reads a line of standard input if the iterator is the Scanner
NextDocumentId ==
    /\ cli.pc = "returned"
    /\ cli.documentIds = "Scanner(stdIn)"
    /\ stdinRead < MaxStdinLines
    /\ stdinRead' = stdinRead + 1
    /\ UNCHANGED cli

CliNext ==
    \/ (\E line \in CommandLines : ParseCall(line)) /\ CliOnly
    \/ ParseOptions /\ CliOnly
    \/ getDocumentIds /\ CliOnly
    \/ Validate /\ CliOnly
    \/ NextDocumentId /\ CliOnly

(***************************************************************************)
(* Part XII  WriteableFileChunk: the writes and syncs of the data file and *)
(*           of the index file that fail.                                  *)
(***************************************************************************)
FailInit == thrown = {}

\* SummaryException(msg, file, location): the file handed over names the file in
\* the message; failedOn records the file on which the operation failed
SummaryException(msg, file, failedOn) ==
    [msg |-> msg, file |-> file, failedOn |-> failedOn]

\* writeData: _dataFile.Write2 writes less than the buffer
WriteDataFails(i) ==
    /\ ~aborted /\ i \in DOMAIN writers /\ writers[i].pc = "write"
    /\ writers[i].chunks # << >>
    /\ thrown' = thrown \cup
           {SummaryException("Failed writing bytes to dat file", "idxFile", "dataFile")}
    /\ writers' = [writers EXCEPT ![i].pc = "thrown"]
    /\ UNCHANGED <<serialNum, frozen, active, nextChunkId, chunkMap, chunkInfo, writeQ,
                   orderedChunks, writeTaskIsRunning, firstChunkIdToBeWritten,
                   pendingChunks, lastPersistedSerialNum, dataFile, idxFile, flushTasks,
                   client, flusher, reader, aborted, appended>>

\* unconditionallyFlushPendingChunks: _dataFile.Sync() fails
DataFileSyncFails ==
    /\ ~aborted /\ flusher.pc = "syncDat"
    /\ thrown' = thrown \cup
           {SummaryException("Failed fsync of dat file", "dataFile", "dataFile")}
    /\ flusher' = [flusher EXCEPT !.pc = "thrown"]
    /\ UNCHANGED <<serialNum, frozen, active, nextChunkId, chunkMap, chunkInfo, writeQ,
                   orderedChunks, writeTaskIsRunning, firstChunkIdToBeWritten,
                   pendingChunks, lastPersistedSerialNum, dataFile, idxFile, flushTasks,
                   writers, client, reader, aborted, appended>>

\* unconditionallyFlushPendingChunks: _idxFile.Write2 writes less than the
\* records taken from the pending chunks, which are lost with it
IdxFileWriteFails ==
    /\ ~aborted /\ flusher.pc = "writeIdx"
    /\ flusher.popped # << >>
    /\ thrown' = thrown \cup
           {SummaryException("Failed writing bytes to idx file", "idxFile", "idxFile")}
    /\ flusher' = [flusher EXCEPT !.pc = "thrown"]
    /\ UNCHANGED <<serialNum, frozen, active, nextChunkId, chunkMap, chunkInfo, writeQ,
                   orderedChunks, writeTaskIsRunning, firstChunkIdToBeWritten,
                   pendingChunks, lastPersistedSerialNum, dataFile, idxFile, flushTasks,
                   writers, client, reader, aborted, appended>>

\* unconditionallyFlushPendingChunks: the records are written, _idxFile.Sync() fails
IdxFileSyncFails ==
    /\ ~aborted /\ flusher.pc = "writeIdx"
    /\ idxFile' = [idxFile EXCEPT !.recs = @ \o flusher.popped]
    /\ thrown' = thrown \cup
           {SummaryException("Failed fsync of idx file", "idxFile", "idxFile")}
    /\ flusher' = [flusher EXCEPT !.pc = "thrown"]
    /\ UNCHANGED <<serialNum, frozen, active, nextChunkId, chunkMap, chunkInfo, writeQ,
                   orderedChunks, writeTaskIsRunning, firstChunkIdToBeWritten,
                   pendingChunks, lastPersistedSerialNum, dataFile, flushTasks,
                   writers, client, reader, aborted, appended>>

WfcFailing ==
    \/ (\E i \in DOMAIN writers : WriteDataFails(i)) /\ WfcFailOnly
    \/ DataFileSyncFails /\ WfcFailOnly
    \/ IdxFileWriteFails /\ WfcFailOnly
    \/ IdxFileSyncFails /\ WfcFailOnly

(***************************************************************************)
(* Part XIII FlattenDocsumWriter: the leaves of the field values iterated  *)
(*           into one writer are put into one buffer, with the separator   *)
(*           between them; clear() starts over.                            *)
(***************************************************************************)
\* FlattenDocsumWriter(const vespalib::string & separator = " ")
DefaultSeparator == <<" ">>

\* the separators of the writers of the test
Separators == {DefaultSeparator, <<"#">>}

\* no writer is constructed yet
NotMade == << >>
NoWriter == [output |-> << >>, separator |-> << >>, useSeparator |-> FALSE, length |-> 0]

\* the fresh writer: an empty buffer of 32 bytes, the separator, no value written
FlattenDocsumWriter(separator) ==
    [output |-> << >>, separator |-> separator, useSeparator |-> FALSE,
     length |-> InitialLength]

FlatInit ==
    /\ fdw = NoWriter
    /\ fdwMade = NotMade
    /\ fdwSession = << >>
    /\ fdwCleared = FALSE
    /\ fdwEarlier = 0

\* the characters of a number
Digits == <<"0", "1", "2", "3", "4", "5", "6", "7", "8", "9">>

\* LongFieldValue(123456789) is flattened to "123456789"
RECURSIVE getAsString(_)
getAsString(n) ==
    IF n < 10 THEN <<Digits[n + 1]>>
    ELSE getAsString(n \div 10) \o <<Digits[(n % 10) + 1]>>

\* the text of one leaf value: the characters of a string or raw value, the
\* decimal digits of a number
LeafText(leaf) ==
    IF leaf.type = "long" THEN getAsString(leaf.value) ELSE leaf.value

\* the string of 32 characters of the resizing test
FillsBuffer == [i \in 1..InitialLength |-> "a"]

\* the leaf values written: strings and numbers
Leaves ==
    {[type |-> "string", value |-> s] : s \in {<<"f">>, <<"b", "a">>, FillsBuffer}}
        \cup {[type |-> "long", value |-> n] : n \in {7, 12}}

\* the field values written, each the sequence of its leaves: single values and
\* arrays of two strings
FlatValues ==
    {<<l>> : l \in Leaves}
        \cup {<<a, b>> : a, b \in {l \in Leaves : l.type = "string" /\ l.value # FillsBuffer}}

\* the separator state is lost with the content, the separator is kept
clearKeepsSeparatorState(w) == [w EXCEPT !.output = << >>]

\* clear(): the buffer is reset (its length stays), the next value is the first
\* again and the separator is the default separator again
clear(w) ==
    [w EXCEPT !.output = << >>, !.separator = DefaultSeparator, !.useSeparator = FALSE]

\* onPrimitive: the separator unless this is the first leaf since construction or
\* clear(), then the text of the leaf
onPrimitive(w, leaf) ==
    [w EXCEPT !.output = @ \o (IF w.useSeparator THEN w.separator ELSE << >>)
                           \o LeafText(leaf),
              !.useSeparator = TRUE]

\* fv.iterateNested(empty path, fdw): onPrimitive for every leaf of the value
RECURSIVE iterateNested(_, _)
iterateNested(w, leaves) ==
    IF leaves = << >> THEN w
    ELSE iterateNested(onPrimitive(w, Head(leaves)), Tail(leaves))

\* FlattenDocsumWriter fdw(separator)
FlatConstruct(separator) ==
    /\ fdw' = FlattenDocsumWriter(separator)
    /\ fdwMade' = separator
    /\ UNCHANGED <<fdwSession, fdwCleared, fdwEarlier>>

\* one field value is iterated into the writer; a buffer too short for the
\* output is resized to hold it at least
FlatWrite(value, slack) ==
    /\ fdwMade # NotMade
    /\ Len(fdwSession) < MaxWrites
    /\ LET w == iterateNested(fdw, value)
       IN fdw' = [w EXCEPT !.length = IF Len(w.output) > @
                                       THEN Len(w.output) + slack ELSE @]
    /\ fdwSession' = Append(fdwSession, value)
    /\ UNCHANGED <<fdwMade, fdwCleared, fdwEarlier>>

\* fdw.clear()
FlatClear ==
    /\ fdwMade # NotMade
    /\ fdw' = clear(fdw)
    /\ fdwSession' = << >>
    /\ fdwCleared' = TRUE
    /\ fdwEarlier' = Len(fdwSession)
    /\ UNCHANGED fdwMade

FlatNext ==
    \/ (fdwMade = NotMade /\ \E separator \in Separators : FlatConstruct(separator))
       /\ FlatOnly
    \/ (\E value \in FlatValues, slack \in {0, 1} : FlatWrite(value, slack)) /\ FlatOnly
    \/ FlatClear /\ FlatOnly

(***************************************************************************)
(* The specifications: each part runs with the other parts at rest.        *)
(***************************************************************************)
vars == <<wfcVars, refVars, feedVars, structVars, docsumVars, allocVars, prioVars, prepareVars, configVars, threadVars, cliVars, failVars, flatVars>>

Init == WfcInit /\ RefInit /\ FeedInit /\ StructInit /\ DocsumInit /\ AllocInit /\ PrioInit /\ PrepareInit /\ ConfigInit /\ ThreadInit /\ CliInit /\ FailInit /\ FlatInit

\* writing, background writing and freeze
WfcNext == WfcWriting({1}, BOOLEAN) \/ WfcBlocking \/ WfcFreezing
SpecWfc == Init /\ [][WfcNext]_vars

\* the executor keeps running its tasks: the packing tasks and the file writer
WfcPacking == \E t \in flushTasks : internalFlush(t) /\ WfcOnly
WfcFileWriting ==
    \E i \in DOMAIN writers :
        (FileWriterStart(i) \/ FileWriterWrite(i) \/ FileWriterUpdate(i)
            \/ FileWriterFinish(i)) /\ WfcOnly
\* a thread whose wait has ended goes on (the waits are under the lock the
\* broadcast is made under, or have a timeout)
WfcWaking ==
    (FlushLast \/ ExecutorSync \/ WaitForChunkFlushedToDisk \/ FlushReturned
        \/ FreezeEnque \/ FreezeDone) /\ WfcOnly
SpecWfcLive ==
    Init /\ [][WfcNext]_vars
         /\ WF_vars(WfcPacking) /\ WF_vars(WfcFileWriting) /\ WF_vars(WfcWaking)

\* writing, background writing and the flush of the pending index records
\* (flushPendingChunks does nothing on a frozen file chunk; a blocking flush only
\* keeps the writing thread waiting, which it may do by staying idle)
WfcFlushNext == WfcWriting({1}, {FALSE}) \/ WfcFlushing
SpecWfcFlush == Init /\ [][WfcFlushNext]_vars

\* writing, background writing, freeze and reads
WfcReadNext == WfcWriting(Lids, {FALSE}) \/ WfcFreezing \/ WfcReading
SpecWfcRead == Init /\ [][WfcReadNext]_vars

\* a struct that is edited and iterated; a transaction is begun where none is
\* open (the callers pair beginTransaction and commitTransaction)
StructIterNext ==
    \/ ~structCache.open /\ beginTransaction /\ UNCHANGED structRead /\ StructOnly
    \/ commitTransaction /\ UNCHANGED structRead /\ StructOnly
    \/ StructIterating
SpecStructIter == Init /\ [][StructIterNext]_vars

\* the reference attribute with a reader (lids are resolved by no one)
RefReadNext == RefWriting \/ RefCommitting \/ RefReading
SpecRefRead == Init /\ [][RefReadNext]_vars

\* the reference attribute with the parent meta store (no reader holds a guard)
RefLidNext == RefWriting \/ RefCommitting \/ RefResolving
SpecRefLid == Init /\ [][RefLidNext]_vars

\* the feed view
SpecFeed == Init /\ [][FeedNext]_vars

\* the feed view with updates
FeedUpdateNext == FeedNext \/ FeedUpdating
SpecFeedUpdate == Init /\ [][FeedUpdateNext]_vars

\* puts, removes, updates and updates without an update
FeedTokenNext == FeedUpdateNext \/ FeedIgnoring
SpecFeedToken == Init /\ [][FeedTokenNext]_vars

\* puts, removes and updates, also updates that cannot be applied, with a master
\* thread, a summary executor and an attribute field writer that keep running
FeedMaster ==
    (adjustMetaStore \/ considerEarlyAck \/ FeedWrites
        \/ (\E explicitReuseLid \in BOOLEAN : FeedRemovePrev(explicitReuseLid))
        \/ FeedFinalAck \/ UpdateAttributes \/ UpdateSummary \/ UpdateRead
        \/ (\E indexedFields \in BOOLEAN, traceLevel \in TraceLevels :
               UpdateTrace(indexedFields, traceLevel))) /\ FeedOnly
FeedSummaryExecutor == (SummaryTask \/ SummaryTaskThrows) /\ FeedOnly
FeedAttributeWriter == (makeUpdatedDocument \/ makeUpdatedDocumentThrows) /\ FeedOnly
FeedLiveNext == FeedUpdateNext \/ FeedFailing
SpecFeedLive ==
    Init /\ [][FeedLiveNext]_vars
         /\ WF_vars(FeedMaster) /\ WF_vars(FeedSummaryExecutor)
         /\ WF_vars(FeedAttributeWriter)

\* the feed view with moves
FeedMoveNext == FeedNext \/ FeedMoving
SpecFeedMove == Init /\ [][FeedMoveNext]_vars

\* the feed view with lid reuse
FeedReuseNext == FeedNext \/ FeedReusing
SpecFeedReuse == Init /\ [][FeedReuseNext]_vars

\* the structured field value
SpecStruct == Init /\ [][StructNext]_vars

\* the dynamic docsum writer
SpecDocsum == Init /\ [][DocsumNext]_vars

\* the node allocation
SpecAlloc == Init /\ [][AllocNext]_vars

\* the node allocation of a cluster with several groups
AllocGroupsNext == AllocNext \/ AllocGroups
SpecAllocGroups == Init /\ [][AllocGroupsNext]_vars

\* the node prioritizer and its candidate list
SpecPrioSpares == Init /\ [][PrioSparesNext]_vars

\* the node prioritizer and its headroom hosts
SpecPrioHeadroom == Init /\ [][PrioHeadroomNext]_vars

\* the provisioner
SpecPrepare == Init /\ [][PrepareNext]_vars

\* the bootstrap config manager
SpecConfigManager == Init /\ [][ConfigManagerNext]_vars

\* the config fetcher and the configurer
SpecConfigFetcher == Init /\ [][ConfigFetcherNext]_vars

\* the thread pool
SpecThread == Init /\ [][ThreadNext]_vars

\* the command line options
SpecCli == Init /\ [][CliNext]_vars

\* writing, background writing and the flush of the pending index records,
\* with writes and syncs that fail
WfcFailNext == WfcWriting({1}, {FALSE}) \/ WfcFlushing \/ WfcFailing
SpecWfcFail == Init /\ [][WfcFailNext]_vars

\* one flattening docsum writer that is written to and cleared
SpecFlat == Init /\ [][FlatNext]_vars

(***************************************************************************)
(* Claims about the writeable file chunk.                                  *)
(***************************************************************************)

\* C1: chunks reach the data file, and their records the index file, in
\* strictly increasing chunk-id order without gaps (a fresh file starts at
\* chunk 0), each chunk's bytes after all bytes of the chunk before it,
\* whatever the order in which the workers finish packing.
C1_ChunkOrder ==
    /\ \A k \in DOMAIN dataFile.extents : dataFile.extents[k].chunkId = k - 1
    /\ \A k \in DOMAIN dataFile.extents :
           k > 1 => dataFile.extents[k].offset >=
                        dataFile.extents[k - 1].offset + dataFile.extents[k - 1].len
    /\ \A k \in DOMAIN idxFile.recs : idxFile.recs[k].chunkId = k - 1

\* chunk 2 was packed before chunk 1 and is held back by the file writer, after
\* chunk 0 went to the data file and the index file
C1_Witness ==
    /\ 2 \in DOMAIN orderedChunks
    /\ 1 \in DOMAIN chunkMap
    /\ writers = << >>
    /\ Len(dataFile.extents) = 1
    /\ Len(idxFile.recs) = 1

\* C2: at most one file-writer task is scheduled or running, and the flag is
\* set while there is one.
C2_OneWriter ==
    /\ Len(writers) <= 1
    /\ writers # << >> => writeTaskIsRunning

\* a packing task enqueues while the file writer is about to finish its batch
C2_Witness ==
    /\ Len(writers) = 1
    /\ writers[1].pc = "finish"
    /\ writeQ # << >>

\* the entry of a read is one that freeze() left behind in the active chunk
LeftInActive(chunkId) == frozen /\ chunkId \notin DOMAIN chunkInfo

\* C3 as stated: every read of an appended entry, at any later moment, returns
\* the appended bytes.
C3_ReadAnyMoment ==
    reader.pc = "done" => reader.got = reader.want

\* C3 as amended: while the file chunk is not frozen every appended entry is in
\* the active chunk, in the chunk map or has a valid chunk info, and a read of it
\* returns the appended bytes; after freeze() the same holds for the entries of
\* the chunks flushed before freeze() was called.
C3_ReadUnlessLeftInActive ==
    /\ (reader.pc = "done" /\ ~reader.lost) => reader.got = reader.want
    /\ reader.lost => LeftInActive(reader.chunkId)
    /\ ~frozen => \A e \in DOMAIN appended :
                      \/ e[2] = active.id
                      \/ e[2] \in DOMAIN chunkMap
                      \/ ~NotOnFile(e[2])

\* a read was served from the data file, for the second chunk of the file
C3_Witness ==
    /\ reader.pc = "done"
    /\ reader.info.valid
    /\ reader.chunkId >= 1
    /\ reader.got = reader.want

\* the chunk has a valid chunk info and its bytes are in the data file
OnDataFile(chunkId) ==
    /\ ~NotOnFile(chunkId)
    /\ \E k \in DOMAIN dataFile.extents : dataFile.extents[k].chunkId = chunkId

\* C38 as stated: after freeze() has returned, every appended entry belongs to
\* a chunk that is in the data file and has a valid chunk info, the entries
\* still in the active chunk when freeze() was called included.
C38_AllEntriesOnFileAfterFreeze ==
    frozen => \A e \in DOMAIN appended : OnDataFile(e[2])

\* C38 as amended: after freeze() has returned, every appended entry whose
\* chunk was flushed before freeze() was called belongs to a chunk that is in
\* the data file and has a valid chunk info.
C38_FlushedEntriesOnFileAfterFreeze ==
    frozen => \A e \in DOMAIN appended : e[2] # active.id => OnDataFile(e[2])

\* freeze() has returned with two flushed chunks and an entry in the active chunk
C38_Witness ==
    /\ frozen
    /\ \E e \in DOMAIN appended : e[2] = active.id
    /\ Cardinality({e[2] : e \in DOMAIN appended} \ {active.id}) >= 2

\* C32: every summary exception thrown for a failed write or sync names the
\* file on which the operation failed.
C32_ExceptionNamesFailedFile ==
    \A e \in thrown : e.file = e.failedOn

\* C37: with an executor that keeps running its tasks and no failing write,
\* every chunk in the chunk map is eventually written to the data file and
\* removed from the map, the write queue and the ordered chunks are eventually
\* empty again, and a thread in flush or freeze eventually returns.
C37_ChunksWrittenThreadsWoken ==
    /\ \A c \in 0..MaxChunks :
           (c \in DOMAIN chunkMap) ~> (c \notin DOMAIN chunkMap /\ OnDataFile(c))
    /\ (writeQ # << >> \/ DOMAIN orderedChunks # {})
           ~> (writeQ = << >> /\ DOMAIN orderedChunks = {})
    /\ (client.pc # "idle") ~> (client.pc = "idle")

\* a blocking flush waits while the write task flag is cleared with a chunk held
\* back in the ordered chunks
C37_Witness ==
    /\ client.pc \in {"sync", "waitChunk"}
    /\ ~writeTaskIsRunning
    /\ DOMAIN orderedChunks # {}
    /\ DOMAIN chunkMap # {}

\* C4: when the last persisted serial number has advanced to the last serial
\* of a chunk, the index record of the chunk is in the synced part of the
\* index file and the synced length of the data file covers the chunk's bytes.
C4_PersistedAfterSync ==
    lastPersistedSerialNum > 0 =>
        \E k \in 1..idxFile.synced :
            /\ idxFile.recs[k].lastSerial = lastPersistedSerialNum
            /\ dataFile.synced >= idxFile.recs[k].offset + idxFile.recs[k].dataLen

\* the last persisted serial number advanced twice, with a chunk still pending
C4_Witness ==
    /\ lastPersistedSerialNum >= 2
    /\ idxFile.synced >= 2
    /\ pendingChunks # << >>

\* C5: when flush(true, ...) returns, the chunk it waited for and every chunk
\* with a smaller id are out of the chunk map, have a valid chunk info and are
\* in the data file; when freeze() has returned the chunk map is empty and the
\* end-of-stream marker has been taken by the file writer, which has stopped.
C5_BlockingFlushAndFreeze ==
    /\ client.pc = "flushed" =>
           \A c \in 0..client.chunkId :
               /\ c \notin DOMAIN chunkMap
               /\ ~NotOnFile(c)
               /\ \E k \in DOMAIN dataFile.extents : dataFile.extents[k].chunkId = c
    /\ frozen =>
           /\ DOMAIN chunkMap = {}
           /\ writeQ = << >>
           /\ DOMAIN orderedChunks = {}
           /\ writers = << >>
           /\ ~writeTaskIsRunning

\* a blocking flush returns after waiting for two chunks
C5_Witness ==
    /\ client.pc = "flushed"
    /\ client.chunkId >= 1

\* C6: the chunk map never holds more than one chunk above the overload limit.
C6_Backpressure ==
    Cardinality(DOMAIN chunkMap) <= MaxOutstandingChunks + 1

\* the flushing thread is suspended with the chunk map one above the limit
C6_Witness ==
    /\ client.pc = "flushLast"
    /\ Cardinality(DOMAIN chunkMap) = MaxOutstandingChunks + 1

(***************************************************************************)
(* Claims about the reference attribute.                                   *)
(***************************************************************************)

\* C7: every set slot of the index array refers to a live, constructed entry;
\* update releases the old entry only after the new ref is in the slot; and
\* the entry behind a ref that a reader loaded from a slot, under its
\* generation guard, stays valid until the reader is done with it.
C7_ReaderSeesValidEntry ==
    /\ \A doc \in DOMAIN indices :
           indices[doc] # NoRef =>
               /\ indices[doc] \in DOMAIN store
               /\ store[indices[doc]].state = "live"
               /\ store[indices[doc]].refCount >= 1
    /\ (refWriter.pc = "remove" /\ refWriter.oldRef # NoRef) =>
           /\ refWriter.oldRef \in DOMAIN store
           /\ store[refWriter.oldRef].state = "live"
    /\ (refReader.pc = "loaded" /\ refReader.ref # NoRef) =>
           /\ refReader.ref \in DOMAIN store
           /\ store[refReader.ref].state \in {"live", "hold", "moved"}

\* a reader still holds the ref of an entry that an update has released, and a
\* commit has passed since the reader took its guard
C7_Witness ==
    /\ refReader.pc = "loaded"
    /\ refReader.ref \in DOMAIN store
    /\ store[refReader.ref].state = "hold"
    /\ generation > refReader.gen

\* C8: a commit that compacts the unique store leaves every document with the
\* reference (gid and lid) it had, and every unset document unset.
C8_CompactionPreserves ==
    [][compactions' # compactions =>
           /\ DOMAIN indices' = DOMAIN indices
           /\ \A doc \in DOMAIN indices :
                  getReference(indices', store', doc) = getReference(indices, store, doc)]_vars

\* after a compaction one document has a reference with a resolved lid in a copied
\* entry and another document is unset
C8_Witness ==
    /\ compactions > 0
    /\ cachedUsage = MemoryUsage(store)
    /\ \E doc \in DOMAIN indices : getReferencedLid(doc) > 0
    /\ \E doc \in DOMAIN indices : indices[doc] = NoRef

\* C9 as stated: whenever every change of the parent meta store has been notified,
\* the lid of every document with a reference is the lid the parent meta store
\* gives to the gid of the reference.
C9_LidInSyncAfterCalls ==
    notifyQ = << >> =>
        \A doc \in DOMAIN indices :
            indices[doc] # NoRef =>
                getReferencedLid(doc) = parentLid[getReference(indices, store, doc).gid]

\* C9 as amended: once the lids were populated through the mapper and every change of the
\* parent meta store has been notified, the lid of every document with a
\* reference is the lid the parent meta store gives to the gid of the reference.
C9_LidInSync ==
    (populated /\ notifyQ = << >>) =>
        \A doc \in DOMAIN indices :
            indices[doc] # NoRef =>
                getReferencedLid(doc) = parentLid[getReference(indices, store, doc).gid]

\* two documents have references, one to a gid with a lid in the parent and one to
\* a gid without, all changes notified
C9_Witness ==
    /\ populated /\ notifyQ = << >>
    /\ \E doc \in DOMAIN indices : indices[doc] # NoRef /\ getReferencedLid(doc) > 0
    /\ \E doc \in DOMAIN indices : indices[doc] # NoRef /\ getReferencedLid(doc) = 0

(***************************************************************************)
(* Claims about the feed view.                                             *)
(***************************************************************************)
\* the operation is past considerEarlyAck
PastEarlyAck == feedLog # << >> /\ feedOp.pc \notin {"meta", "earlyAck"}

\* the acknowledgment came right after the meta store update
AckedEarly == Len(feedLog) >= 2 /\ feedLog[1] = "meta" /\ feedLog[2] = "ack"

\* C10 as stated: without a visibility delay a put or remove with a token is
\* acknowledged right after the meta store update, before its writes.
C10_EarlyAckWithoutDelay ==
    (~visibilityDelay /\ feedOp.withToken /\ PastEarlyAck) => AckedEarly

\* C10 as amended: with a visibility delay a put or remove with a token is
\* acknowledged right after the meta store update, before any of its summary,
\* attribute and index writes is issued; without a visibility delay it is not
\* acknowledged before its writes are issued: the token goes to the done context
\* of the writes or is acknowledged as the last step of the operation.
C10_EarlyAckWithDelay ==
    /\ (visibilityDelay /\ feedOp.withToken /\ PastEarlyAck) =>
           /\ AckedEarly
           /\ \A i \in 3..Len(feedLog) : feedLog[i] # "ack"
    /\ (~visibilityDelay /\ PastEarlyAck) =>
           \A i \in DOMAIN feedLog :
               feedLog[i] = "ack" => i = Len(feedLog) /\ feedOp.pc = "idle"

\* with a visibility delay, a put with a token was acknowledged and then issued
\* its writes
C10_Witness ==
    /\ visibilityDelay /\ feedOp.withToken /\ feedOp.type = "put"
    /\ AckedEarly
    /\ Len(feedLog) >= 5
    /\ feedLog[3] = "summary"

\* the acknowledgments of the current operation so far
Acks == Len(SelectSeq(feedLog, LAMBDA e : e = "ack"))

\* C33: a put, update or remove that came with a token and has returned has
\* acknowledged the token once or has handed it to a done context, which
\* acknowledges it when it is let go, and never both or twice; an operation
\* without a token acknowledges nothing.
C33_AckedExactlyOnce ==
    /\ Acks + (IF feedOp.inContext THEN 1 ELSE 0) <= 1
    /\ ~feedOp.withToken => Acks = 0 /\ ~feedOp.inContext
    /\ (feedOp.pc = "idle" /\ feedLog # << >> /\ feedOp.withToken) =>
           Acks + (IF feedOp.inContext THEN 1 ELSE 0) = 1

\* C34: internalUpdate never uses the token variable after the token has been
\* moved into the update done context.
C34_TokenNotUsedAfterMove ==
    \A i \in DOMAIN feedLog : feedLog[i] # "traceNull"

\* C39: every lid registered as pending by a summary put or remove is
\* eventually consumed, never more often than it was produced, and an update
\* that waits for its lid to be consumed eventually goes on.
C39_ProducedLidConsumed ==
    /\ [](\A l \in FeedLids : pendingLids[l] >= 0)
    /\ \A l \in FeedLids : (pendingLids[l] > 0) ~> (pendingLids[l] = 0)
    /\ (feedOp.pc = "waitLid") ~> (feedOp.pc # "waitLid")

\* the steps of the current operation other than acknowledgments
StepsIssued == SelectSeq(feedLog, LAMBDA e : e # "ack")

C12_UpdateReadsLatest ==
    (feedOp.type = "update" /\ feedOp.read) => feedOp.prevDoc = feedOp.latest

\* an update has read the version written by the operation just before it
C12_Witness ==
    /\ feedOp.type = "update" /\ feedOp.read
    /\ feedOp.serial > 1
    /\ feedOp.prevDoc = feedOp.serial - 1

\* C13: the move-done callback handed to handleMove has not fired while a
\* summary write of the move, the put into the new placement or the remove from
\* the old one, is still to be applied.
C13_MoveDoneAfterBothLegs ==
    moveDone.state = "fired" =>
        \A i \in DOMAIN summaryQ :
            summaryQ[i].val # moveDone.serial /\ summaryQ[i].val # -moveDone.serial

\* C14: a lid that was given back to the meta store for reuse has no summary
\* removal still waiting for the summary executor (attribute and index removals
\* of the store-only feed view are done when they are issued).
C14_ReuseAfterRemovals ==
    \A l \in FeedLids :
        lidReuse[l] = "free" =>
            \A i \in DOMAIN summaryQ : ~(summaryQ[i].lid = l /\ summaryQ[i].val < 0)

(***************************************************************************)
(* Claims about the structured field value.                                *)
(***************************************************************************)
\* C15: while a transaction is open, remove and update calls leave the stored
\* fields as they were when it began; after commitTransaction every field that
\* was removed is gone, every field that was updated holds the last value
\* given, and every other field holds what it held.
C15_TransactionBuffers ==
    /\ structCache.open => structFields = structAtBegin
    /\ ~structCache.open => structFields = structExpected

\* a transaction has been committed that removed field 1, which was set, gave
\* field 2 a new value and left field 3, which is set, alone
C15_Witness ==
    /\ ~structCache.open
    /\ structAtBegin[1] # NullValue /\ structFields[1] = NullValue
    /\ structFields[2] # NullValue /\ structFields[2] # structAtBegin[2]
    /\ structFields[3] # NullValue /\ structFields[3] = structAtBegin[3]

\* C35: a field that an iteration of the open transaction modified or removed
\* keeps its MODIFIED or REMOVED status in the cache until the commit, whatever
\* later iterations of the transaction report for it, and after the commit the
\* struct holds what the iterations and calls asked for.
C35_ModifiedNeverDowngraded ==
    /\ [](~structCache.open => structFields = structExpected)
    /\ [][\A f \in StructFieldIds :
             (/\ structCache.open /\ structCache'.open
              /\ structCache.entries[f].status \in {"MODIFIED", "REMOVED"})
             => structCache'.entries[f].status \in {"MODIFIED", "REMOVED"}]_vars

\* C36: in an open transaction, getValue of a field that is set and was not
\* removed gives the value of the field: the last value buffered for it or else
\* the stored value, whatever was read before.
C36_ReadYieldsValue ==
    \A r \in structRead.reads :
        (r.open /\ r.expect # NullValue) => r.value = r.expect

(***************************************************************************)
(* Claims about the flattening docsum writer.                              *)
(***************************************************************************)

C16_AnyAllGeneratedClass ==
    (/\ docsum.result # "none"
     /\ docsum.rci.outputClass # NullClass
     /\ Entries(docsum.rci.outputClass) \subseteq docsum.generated)
    => "getMappedDocsum" \notin docsum.storeCalls

\* C16 (as amended): when the class name of the request, or else the default
\* output class, gives a class whose every field has a generated writer, the
\* docsum is an object written by the writers of that class; the store is asked
\* for its summary class id and for nothing else, and no blob is unpacked.
C16_AllGeneratedReadsNoBlob ==
    (/\ docsum.result # "none"
     /\ docsum.requested \in ClassIds
     /\ Entries(docsum.requested) \subseteq docsum.generated)
    => /\ docsum.result = "object"
       /\ docsum.storeCalls = {"getSummaryClassId"}
       /\ ~docsum.unpack
       /\ docsum.writers = Entries(docsum.requested)
       /\ docsum.converted = {}

\* a docsum of class 0, asked for by name, with generated writers for both of
\* its fields
C16_Witness ==
    /\ docsum.result = "object"
    /\ docsum.requested = 0
    /\ Entries(0) \subseteq docsum.generated
    /\ docsum.rci.allGenerated

\* C17: a docsum whose class info says mustSkip (the output class or the input
\* class is not a class of the result config) is nix, and neither the store is
\* read and unpacked nor a field writer run.
C17_UnresolvedGivesNix ==
    (docsum.result # "none" /\ docsum.rci.mustSkip)
    => /\ docsum.result = "nix"
       /\ "getMappedDocsum" \notin docsum.storeCalls
       /\ ~docsum.unpack
       /\ docsum.writers = {}

\* C18: every field has at most one registered writer, which is the writer of
\* the override table; an Override call that returns false leaves the override
\* table and the counters of the classes as they were; and a class is resolved
\* as all generated exactly when the writers of all its fields are generated.
C18_OverrideTable ==
    /\ [](/\ \A e \in EnumValues :
                /\ Cardinality({p \in accepted : p[1] = e}) <= 1
                /\ \A w \in DocsumWriters :
                       (<<e, w>> \in accepted) <=> (overrideTable[e] = w)
          /\ \A c \in ClassIds :
                resolveOutputClass(TRUE, c).allGenerated
                    <=> (\A e \in Entries(c) : overrideTable[e] = "generated"))
    /\ [][(lastOverride' # lastOverride /\ ~lastOverride'.ret)
            => UNCHANGED <<overrideTable, classInfoTable>>]_vars

\* a rejected Override of a field that has a writer, and class 0 all generated
\* while class 1 is not
C18_Witness ==
    /\ ~lastOverride.ret
    /\ lastOverride.fieldEnumValue < numEnumValues
    /\ overrideTable[lastOverride.fieldEnumValue] # lastOverride.writer
    /\ resolveOutputClass(TRUE, 0).allGenerated
    /\ ~resolveOutputClass(TRUE, 1).allGenerated
    /\ overrideTable[2] = "stored"

(***************************************************************************)
(* Claims about the node allocation.                                       *)
(***************************************************************************)
NotRetired(nodeSet) == {n \in nodeSet : ~n.retired}

C20_DistinctParentHosts ==
    (finalList.called /\ fullfilled)
    => \A n, m \in NotRetired(finalList.nodes) :
           n # m => ~SameParentHostname(n, m)

\* C21: the accepted nodes of an allocation have pairwise distinct membership
\* indexes (every accepted node brought an index of its own), and a node that
\* gets its allocation in offer gets an index larger than every index accepted
\* before it, by this allocation and by the allocations of earlier groups
\* that share the counter.
C21_DistinctRisingIndexes ==
    /\ [](/\ Cardinality(indexes) = acceptedOfRequestedFlavor + wasRetiredJustNow
          /\ Cardinality(allocNodes) = Cardinality(indexes)
          /\ {n.index : n \in allocNodes} = indexes)
    /\ [][\A n \in allocNodes' \ allocNodes :
              n.state = "ready"
                  => \A i \in indexes \cup earlierIndexes : n.index > i]_vars

\* the allocation of a second group takes a new node after the first group has
\* accepted an allocated node and a new node
C21_Witness ==
    /\ earlierIndexes # {}
    /\ \E n \in allocNodes : n.state = "ready" /\ n.index = highestIndex
    /\ Cardinality(earlierIndexes) = 2

(***************************************************************************)
(* Claims about the node prioritizer.                                      *)
(***************************************************************************)
\* the tenant nodes among the candidates whose parent host is a spare host
OnSpareHost ==
    {p \in prioNodes : p.parent \in prio.spareHosts /\ p.parent \in HostNames}

\* the nodes of allNodes that addApplicationNodes takes
ApplicationNodeNames ==
    {n.hostname : n \in {m \in prio.allNodes :
                            /\ m.type = prio.request.type
                            /\ m.state \in {"active", "inactive", "reserved"}
                            /\ m.owner = "app"}}

\* C22, as stated: when the allocation is not a failure-replacement, no
\* tenant node whose parent host is a spare host is in the candidate list,
\* whichever source it came from.
C22_NoSpareHostCandidate ==
    (prio.constructed /\ ~prio.isAllocatingForReplacement) => OnSpareHost = {}

\* C22, amended: when the allocation is not a failure-replacement, a tenant
\* node whose parent host is a spare host is in the candidate list only as one
\* of the application's existing nodes, flagged as violating the spares, and
\* never as a surplus node, a new docker node or a ready node.
C22_OnlyApplicationNodesOnSpareHosts ==
    (prio.constructed /\ ~prio.isAllocatingForReplacement)
        => \A p \in OnSpareHost :
               /\ p.node \in ApplicationNodeNames
               /\ ~p.isSurplusNode
               /\ ~p.isNewNode
               /\ p.violatesSpares

\* a ready node on the spare host was left out, a new docker node on another
\* host and an application node on the spare host are candidates
C22_Witness ==
    /\ prio.constructed
    /\ ~prio.isAllocatingForReplacement
    /\ \E n \in prio.allNodes :
           /\ n.state = "ready"
           /\ n.parent \in prio.spareHosts
           /\ \A p \in prioNodes : p.node # n.hostname
    /\ \E p \in prioNodes : p.parent \notin prio.spareHosts /\ p.isNewNode
    /\ \E p \in OnSpareHost : p.node \in ApplicationNodeNames

\* C23: for a flavor with a positive ideal headroom count, the number of
\* hosts marked as headroom hosts without violation is at most that count.
C23_HeadroomWithinIdeal ==
    (prio.constructed /\ prio.request.idealHeadroom > 0)
        => Cardinality(prio.headroomHosts.ok) <= prio.request.idealHeadroom

\* the nodes of the application's cluster among allNodes, and the failed ones
ClusterNodes == {n \in prio.allNodes : InCluster(n)}
FailedClusterNodes == {n \in ClusterNodes : n.state = "failed"}

\* C24: the allocation is a failure-replacement exactly when the cluster has
\* a failed node and the requested count exceeds the cluster size minus the
\* number of failed nodes; a cluster of 5 nodes with 2 failed and 4 requested
\* is one; a node on a spare host that is not one of the application's
\* existing nodes is a candidate only of a replacement.
C24_ReplacementExactly ==
    prio.constructed =>
        /\ prio.isAllocatingForReplacement
               <=> /\ FailedClusterNodes # {}
                   /\ prio.request.count
                          > Cardinality(ClusterNodes) - Cardinality(FailedClusterNodes)
        /\ (/\ Cardinality(ClusterNodes) = 5
            /\ Cardinality(FailedClusterNodes) = 2
            /\ prio.request.count = 4) => prio.isAllocatingForReplacement
        /\ (\E p \in OnSpareHost : p.node \notin ApplicationNodeNames)
               => prio.isAllocatingForReplacement

\* the example: 5 nodes, 2 failed, 4 requested, and the ready node on the
\* spare host is a candidate
C24_Witness ==
    /\ Cardinality(ClusterNodes) = 5
    /\ Cardinality(FailedClusterNodes) = 2
    /\ prio.request.count = 4
    /\ prio.isAllocatingForReplacement
    /\ \E p \in OnSpareHost : p.node \notin ApplicationNodeNames /\ ~p.isNewNode
    /\ \E p \in OnSpareHost : p.isNewNode

(***************************************************************************)
(* Claims about the provisioner.                                           *)
(***************************************************************************)
\* C25: prepare ends with an error whenever the cluster names a group or the
\* requested node count is not a multiple of the requested group count, and
\* a call that ends with an error neither invokes the preparer nor changes
\* what the preparer has been given.
C25_RejectsBeforePreparing ==
    /\ [](prepareCall.called =>
             ((\/ prepareCall.group
               \/ \A k \in 0..MaxNodeCount :
                      prepareCall.nodeCount # k * prepareCall.wantedGroups)
                  => prepareCall.error # "none"))
    /\ [][prepareCall'.error # "none" => UNCHANGED <<preparerCalls, prepared>>]_vars

\* a request of 3 nodes in 2 groups was rejected after the preparer had been
\* invoked for another request
C25_Witness ==
    /\ prepareCall.called
    /\ ~prepareCall.group
    /\ prepareCall.nodeCount = 3
    /\ prepareCall.wantedGroups = 2
    /\ prepareCall.error = "IllegalArgumentException"
    /\ preparerCalls = 1

\* C40: the node count prepare hands to the preparer is a multiple of the
\* group count it hands over with it, whatever the capacity policy decides.
C40_CountMultipleOfGroups ==
    preparerCalls > 0
        => \E k \in 0..MaxNodeCount : prepared.count = k * prepared.groups

(***************************************************************************)
(* Claims about the proton configuration.                                  *)
(***************************************************************************)
\* C26: the configuration a config manager exposes changes only in an
\* update(): the first one gives the manager its configuration, and a later
\* one changes it only if a reload() came after the update() before; it is
\* then the configuration built at that reload, field for field; an update()
\* without a reload() since the last one leaves it as it was.
C26_ChangesOnUpdateAfterReload ==
    /\ [][cfgManager'.config # cfgManager.config
              => /\ cfgManager'.last = "update"
                 /\ cfgManager.config # NoConfig
                        => cfgContext.generation > cfgManager.config.generation
                 /\ cfgManager'.config.generation = cfgContext.generation
                 /\ cfgManager'.config.rpcport = cfgContext.rpcport
                 /\ cfgManager'.config.docTypes = cfgContext.docTypes]_vars
    /\ [][(cfgManager' # cfgManager /\ cfgManager'.last = "updateWithoutReload")
              => cfgManager'.config = cfgManager.config]_vars
    /\ [](cfgManager.config.generation = cfgContext.generation
              => /\ cfgManager.config.rpcport = cfgContext.rpcport
                 /\ cfgManager.config.docTypes = cfgContext.docTypes)

\* the manager has taken the second reload, with the changed port and a new
\* document type, and has since been updated again without a reload, while
\* the builders have changed once more
C26_Witness ==
    /\ cfgManager.config.generation = 2
    /\ cfgManager.config.rpcport = ChangedRpcport
    /\ "foobar" \in cfgManager.config.docTypes
    /\ cfgManager.last = "updateWithoutReload"
    /\ cfgBuilders.rpcport = DefaultRpcport

C28_TwoKeys ==
    cfgManager.keySet # {}
        => cfgManager.keySet = {ConfigKey("proton", cfgManager.configId),
                                ConfigKey("documenttypes", cfgManager.configId)}

\* C28, amended: the key set of the bootstrap config manager has three keys,
\* all of its config id, among them the proton key and the document-types
\* key.
C28_ThreeKeys ==
    cfgManager.keySet # {}
        => /\ Cardinality(cfgManager.keySet) = 3
           /\ ConfigKey("proton", cfgManager.configId) \in cfgManager.keySet
           /\ ConfigKey("documenttypes", cfgManager.configId) \in cfgManager.keySet
           /\ \A key \in cfgManager.keySet : key.configId = cfgManager.configId

\* the manager of the config id foo has made its key set
C28_Witness ==
    /\ cfgManager.configId = "foo"
    /\ cfgManager.keySet # {}

(***************************************************************************)
(* Claims about the thread pool.                                           *)
(***************************************************************************)
\* C29: the threads of a pool that run at one time are never more than the
\* maximum of the pool; a call of NewThread made while the maximum number is
\* running returns NULL, and a call made while fewer are running returns a
\* thread.
C29_AtMostMaxThreads ==
    /\ Cardinality({j \in Jobs : jobs[j] = "running"}) = pool.numActive
    /\ pool.numActive <= pool.maxThreads
    /\ newThread.made =>
           /\ newThread.running = pool.maxThreads => newThread.result = "NULL"
           /\ newThread.running < pool.maxThreads => newThread.result = "thread"

\* the call after the maximum number of threads was made found them all
\* running and returned NULL
C29_Witness ==
    /\ pool.maxThreads = MaxPoolThreads
    /\ pool.numActive = MaxPoolThreads
    /\ newThread.made
    /\ newThread.running = MaxPoolThreads
    /\ newThread.result = "NULL"

(***************************************************************************)
(* Claims about the command line options.                                  *)
(***************************************************************************)
\* a command line with both --printids and --headersonly is being parsed
BothOptions ==
    cli.pc # "idle" /\ cli.line.printids /\ cli.line.headersonly

\* C30, as stated: parsing a command line with --printids and --headersonly
\* fails with an IllegalArgumentException, and when it fails nothing has been
\* read from standard input and no document id has been taken from the
\* argument list.
C30_FailsBeforeDocumentIds ==
    BothOptions =>
        /\ cli.pc # "returned"
        /\ cli.pc = "failed" =>
               /\ cli.error # "none"
               /\ stdinRead = 0
               /\ cli.documentIds = "none"

\* C30, amended: parsing a command line with --printids and --headersonly
\* fails with an IllegalArgumentException and nothing is read from standard
\* input; the test of the two options comes after getDocumentIds, so when
\* it fails the ids of the argument list are already in an iterator (or
\* standard input in a Scanner), which is not returned.
C30_FailsWithoutReading ==
    BothOptions =>
        /\ cli.pc # "returned"
        /\ stdinRead = 0
        /\ cli.pc = "failed" => cli.error # "none"
        /\ cli.error = "IllegalArgumentException: Print ids and headers only"
               => cli.documentIds # "none"

\* the call has failed for the two options, with the ids of the argument list
\* in an iterator
C30_Witness ==
    /\ BothOptions
    /\ cli.pc = "failed"
    /\ cli.error = "IllegalArgumentException: Print ids and headers only"
    /\ cli.documentIds = "args.iterator()"
    /\ Len(cli.line.args) = 2
====
